---- MODULE Spec2Model ----
(***************************************************************************)
(* A model of the GlowBarn streaming pipeline: the fusion engine           *)
(* (sensors/src/fusion.rs), the trigger manager (sensors/src/triggers.rs), *)
(* the event recorder (sensors/src/recording.rs) and the tasks of the      *)
(* application (app/src/main.rs).                                          *)
(*                                                                         *)
(* Numbers.  Sensor values are small integers.  The f64 statistics of a    *)
(* baseline are modelled in exact rational arithmetic (a pair <<num, den>>  *)
(* in lowest terms, den > 0); the baseline keeps std_dev squared, so that  *)
(* the square root of line 52 and the squaring of line 50 cancel.  A       *)
(* z-score is carried in thousandths (truncated), a confidence in          *)
(* thousandths; every threshold comparison on a z-score is made exactly,   *)
(* on the rationals.  Time is a count of milliseconds.                     *)
(***************************************************************************)
EXTENDS Integers, Sequences, FiniteSets, TLC

VARIABLES
    config,           \* FusionEngine.config
    baselines,        \* FusionEngine.baselines: a function on the sensor names inserted
    recent_readings,  \* FusionEngine.recent_readings
    channel,          \* the events held by the mpsc channel of event_tx
    rx_open,          \* whether the Receiver of the event channel is still open
    pending,          \* process_reading suspended in event_tx.send: its event, or None
    ret,              \* what the last process_reading call observed and returned
    n_readings,       \* process_reading calls made so far (bounds the model)
    n_resets,         \* baseline resets made so far (bounds the model)
    now,              \* the system clock, in ms
    triggers,         \* TriggerManager.triggers
    event_history,    \* TriggerManager.event_history
    tm_ret,           \* what the last process_event call did and returned
    n_events,         \* process_event calls made so far (bounds the model)
    recorder,         \* EventRecorder: session, event_writer, sensor_writer
    fs,               \* the directories under base_path and their files
    rec_ret,          \* the last recorder call and what it returned
    acked,            \* per directory, the event lines record_event returned Ok for
                      \* while a session was active
    recorded,         \* the event lines record_event returned Ok for since the
                      \* session now active, or last active, was started
    n_calls,          \* recorder calls made so far (bounds the model)
    main_pc,          \* main: "running", "cleanup" (signal received), "ended"
                      \* (end_session called), "exited" (main has returned)
    e_pc,             \* the event task: "recv", "record" or "triggers"
    e_event,          \* the event the event task holds, or None
    in_flight,        \* the events in flight when the signal arrived (held by the
                      \* channel, or by the event task short of its record step)
                      \* that have not yet passed the record step
    fn_args,          \* a function of the program taken on its own: the arguments
                      \* of its last call (for a method, the object it was called on)
    fn_result,        \* what that call returned, or None before it
    sensor_rx,        \* the readings in the channel of the hardware manager
    call,             \* a process_reading call taken section by section: where it
                      \* stands, its reading, its `now` and the guards it holds;
                      \* None when no such call is under way
    trace             \* the history of the pipeline: the readings the hardware
                      \* manager sent (source), the readings process_reading was
                      \* handed (taken), the events it built (made), the events
                      \* the event task received (received) and the calls the
                      \* event task made with them (calls), each in order

fusion_vars ==
    <<config, baselines, recent_readings, channel, rx_open, pending, ret, n_readings,
      n_resets>>

trigger_vars == <<triggers, event_history, tm_ret, n_events>>

recorder_vars == <<recorder, fs, rec_ret, acked, recorded, n_calls>>

main_vars == <<main_pc, e_pc, e_event, in_flight>>

fn_vars == <<fn_args, fn_result>>
source_vars == <<sensor_rx, trace>>
call_vars == <<call>>
side_vars == <<fn_vars, source_vars, call_vars>>

vars == <<fusion_vars, trigger_vars, recorder_vars, main_vars, side_vars, now>>

----------------------------------------------------------------------------
(* Bounds of the model *)

\* Readings one sensor may supply.
MaxSamples == 4
\* Readings supplied in all.
MaxReadings == 5
\* The clock stops here.
MaxTime == 2
\* Baseline resets in all.
MaxResets == 2
\* Capacity of the event channel in the model; the source builds it with
\* mpsc::channel(100) (fusion.rs:115).
ChannelCapacity == 1
\* Events handed to the trigger manager in all.
MaxEvents == 3
\* Calls made to the recorder in all.
MaxCalls == 5
\* The clock of the recorder stops after this many seconds.
MaxSeconds == 1
\* Correlated readings handed to classify_event.
MaxCorrelated == 2
\* Events handed to the trigger manager in the burst scenario.
MaxBurstEvents == 4
\* Events handed to a trigger manager whose history is one short of its limit.
MaxLateEvents == 4
\* The capacity of the channel of readings in the model; the source builds it
\* with mpsc::channel(1000) (hal/src/lib.rs:173).
SensorCapacity == 2
\* Values fed to one baseline.
MaxUpdates == 4

\* Option<T>: None is the empty sequence, Some(x) the sequence of x alone.
None == <<>>
Some(x) == <<x>>

----------------------------------------------------------------------------
(* Exact rationals *)

Abs(x) == IF x < 0 THEN -x ELSE x
Min2(a, b) == IF a < b THEN a ELSE b
Max2(a, b) == IF a > b THEN a ELSE b

RECURSIVE GCD(_, _)
GCD(a, b) == IF b = 0 THEN a ELSE GCD(b, a % b)

Rat(n, d) ==
    LET g == GCD(Abs(n), Abs(d))
        s == IF d < 0 THEN -1 ELSE 1
    IN  <<(s * n) \div g, (s * d) \div g>>

RInt(i) == <<i, 1>>
RAdd(x, y) == Rat(x[1] * y[2] + y[1] * x[2], x[2] * y[2])
RSub(x, y) == Rat(x[1] * y[2] - y[1] * x[2], x[2] * y[2])
RMul(x, y) == Rat(x[1] * y[1], x[2] * y[2])
RDiv(x, y) == Rat(x[1] * y[2], x[2] * y[1])
RLess(x, y) == x[1] * y[2] < y[1] * x[2]
RAbs(x) == <<Abs(x[1]), x[2]>>

RECURSIVE Pow10(_)
Pow10(k) == IF k = 0 THEN 1 ELSE 10 * Pow10(k - 1)

\* The first k decimal digits of r / d (0 <= r < d), as an integer; computed
\* digit by digit so that no intermediate product leaves the 32-bit range.
RECURSIVE ScaledDigits(_, _, _)
ScaledDigits(r, d, k) ==
    IF k = 0 THEN 0
    ELSE ((r * 10) \div d) * Pow10(k - 1) + ScaledDigits((r * 10) % d, d, k - 1)

\* floor(10^k * x), x >= 0.
RScaled(x, k) == (x[1] \div x[2]) * Pow10(k) + ScaledDigits(x[1] % x[2], x[2], k)

\* floor(sqrt(n)), n >= 0: the largest r in lo..hi with r * r <= n.
RECURSIVE SqrtBetween(_, _, _)
SqrtBetween(n, lo, hi) ==
    IF lo = hi THEN lo
    ELSE LET mid == (lo + hi + 1) \div 2
         IN  IF mid * mid <= n THEN SqrtBetween(n, mid, hi)
             ELSE SqrtBetween(n, lo, mid - 1)

ISqrt(n) == SqrtBetween(n, 0, IF n < 46340 THEN n ELSE 46340)

\* exp(-f / 1000) in units of 10^-4, for 0 <= f < 1000: the Taylor series,
\* term j being f^j / (1000^j * j!).
RECURSIVE ExpSeries(_, _, _)
ExpSeries(f, term, j) ==
    IF term = 0 \/ j > 12 THEN 0
    ELSE LET next == (term * f) \div (1000 * j)
         IN  (IF j % 2 = 1 THEN -next ELSE next) + ExpSeries(f, next, j + 1)

\* exp(-x / 1000) in units of 10^-4, x >= 0 (exp(-1) = 0.3679).
RECURSIVE ExpNeg(_)
ExpNeg(x) ==
    IF x >= 1000 THEN (ExpNeg(x - 1000) * 3679) \div 10000
    ELSE 10000 + ExpSeries(x, 10000, 1)

----------------------------------------------------------------------------
(* Sensor names are sequences of characters, so that the substring tests   *)
(* of get_sensor_type are computed.                                        *)

EmfName == <<"e", "m", "f">>
TempName == <<"t", "e", "m", "p">>

SensorNames == {EmfName, TempName}
Values == {0, 10}

\* str::to_lowercase, on the letters the model's names use.
LowerChar(c) ==
    CASE c = "P" -> "p"
      [] c = "I" -> "i"
      [] c = "R" -> "r"
      [] c = "E" -> "e"
      [] c = "M" -> "m"
      [] c = "F" -> "f"
      [] c = "T" -> "t"
      [] OTHER -> c

to_lowercase(name) == [i \in 1..Len(name) |-> LowerChar(name[i])]

\* str::contains
Contains(name, pat) ==
    \E i \in 0..(Len(name) - Len(pat)) :
        \A j \in 1..Len(pat) : name[i + j] = pat[j]

get_sensor_type(name) ==
    LET name_lower == to_lowercase(name) IN
    IF Contains(name_lower, <<"e", "m", "f">>) \/ Contains(name_lower, <<"m", "a", "g">>)
            \/ Contains(name_lower, <<"h", "m", "c">>)
        THEN "emf"
    ELSE IF Contains(name_lower, <<"t", "e", "m", "p">>) \/ Contains(name_lower, <<"m", "l", "x">>)
            \/ Contains(name_lower, <<"b", "m", "e">>)
        THEN "temperature"
    ELSE IF Contains(name_lower, <<"a", "u", "d", "i", "o">>) \/ Contains(name_lower, <<"m", "i", "c">>)
        THEN "audio"
    ELSE IF Contains(name_lower, <<"p", "i", "r">>)
            \/ Contains(name_lower, <<"m", "o", "t", "i", "o", "n">>)
        THEN "motion"
    ELSE IF Contains(name_lower, <<"c", "a", "m", "e", "r", "a">>)
            \/ Contains(name_lower, <<"v", "i", "d", "e", "o">>)
        THEN "camera"
    ELSE IF Contains(name_lower, <<"s", "d", "r">>) \/ Contains(name_lower, <<"r", "t", "l">>)
        THEN "sdr"
    ELSE IF Contains(name_lower, <<"i", "n", "f", "r", "a">>)
        THEN "infrasound"
    ELSE "unknown"

----------------------------------------------------------------------------
(* SensorBaseline *)

\* SensorBaseline::new.  std_dev starts at 1.0, so its square does.
\* min starts at f64::MAX and max at f64::MIN: both are written <<>> here,
\* and <<v>> once a sample has been seen.  last_calibration (the time of
\* creation) is left out: nothing reads it.
SensorBaseline_new ==
    [sample_count |-> 0, mean |-> RInt(0), std_dev_sq |-> RInt(1),
     min |-> <<>>, max |-> <<>>]

\* SensorBaseline::update
update(b, value) ==
    LET sample_count == b.sample_count + 1
        delta == RSub(RInt(value), b.mean)
        mean == RAdd(b.mean, RDiv(delta, RInt(sample_count)))
        delta2 == RSub(RInt(value), mean)
        m2 == RMul(b.std_dev_sq, RInt(sample_count - 1))
        new_m2 == RAdd(m2, RMul(delta, delta2))
    IN  [sample_count |-> sample_count,
         mean |-> mean,
         std_dev_sq |-> IF sample_count > 1
                          THEN RDiv(new_m2, RInt(sample_count - 1))
                          ELSE b.std_dev_sq,
         min |-> IF b.min = <<>> THEN <<value>> ELSE <<Min2(b.min[1], value)>>,
         max |-> IF b.max = <<>> THEN <<value>> ELSE <<Max2(b.max[1], value)>>]

\* The square of SensorBaseline::z_score.
ZScoreSq(b, value) ==
    IF b.std_dev_sq[1] = 0 THEN RInt(0)
    ELSE LET d == RSub(RInt(value), b.mean) IN RDiv(RMul(d, d), b.std_dev_sq)

\* SensorBaseline::z_score, in thousandths, truncated toward zero.
z_score(b, value) ==
    LET abs_z == ISqrt(RScaled(ZScoreSq(b, value), 6))
    IN  IF RLess(RInt(value), b.mean) THEN -abs_z ELSE abs_z

\* |z_score(value)| > threshold, for a threshold >= 0; decided exactly.
AbsZAbove(b, value, threshold) ==
    RLess(RMul(threshold, threshold), ZScoreSq(b, value))

\* A test of anomaly every reading passes.
is_anomalous_any(b, value, threshold) == TRUE

\* SensorBaseline::is_anomalous
is_anomalous(b, value, threshold) == AbsZAbove(b, value, threshold)

----------------------------------------------------------------------------
(* Confidence, ParanormalEvent *)

\* Confidence::from_score, on a score in thousandths.
from_score(score) ==
    IF score >= 900 THEN "VeryHigh"
    ELSE IF score >= 700 THEN "High"
    ELSE IF score >= 500 THEN "Medium"
    ELSE "Low"

\* ParanormalEvent::new: the id and the timestamp are readings of the clock.
ParanormalEvent_new(event_type, confidence, t) ==
    [id |-> t, event_type |-> event_type, timestamp |-> t,
     confidence |-> confidence, confidence_level |-> from_score(confidence),
     sensor_data |-> <<>>, metadata |-> <<>>]

with_sensor_data(event, data) ==
    [event EXCEPT !.sensor_data = Append(@, data)]

----------------------------------------------------------------------------
(* FusionEngine *)

\* The configurations the engine is built with: anomaly_threshold (a
\* rational), min_baseline_samples, correlation_window_ms, min_confidence
\* (thousandths).
Configs ==
    {[anomaly_threshold |-> <<1, 2>>, min_baseline_samples |-> 3,
      correlation_window_ms |-> 1, min_confidence |-> 100]}

\* floor(1000 * x) of a rational x >= 0
Milli(x) == RScaled(x, 3)

\* FusionEngine::calculate_confidence, z_score and result in thousandths
calculate_confidence(cfg, z) ==
    LET abs_z == Abs(z)
        x == (abs_z - Milli(cfg.anomaly_threshold)) \div 2
        base == IF x < 0 THEN 0 ELSE (10000 - ExpNeg(x)) \div 10
    IN  Max2(0, Min2(base, 950))

\* process_reading, lines 130-137: push, then prune
StoreReading(cfg, recent, t, reading) ==
    LET cutoff == t - cfg.correlation_window_ms * 2
    IN  SelectSeq(Append(recent, [t |-> t, reading |-> reading]),
                  LAMBDA e : e.t > cutoff)

\* process_reading, lines 140-146: entry().or_insert_with(new), update
UpdateBaseline(bl, reading) ==
    LET name == reading.sensor_name
        baseline == IF name \in DOMAIN bl THEN bl[name] ELSE SensorBaseline_new
    IN  [s \in DOMAIN bl \cup {name} |->
            IF s = name THEN update(baseline, reading.value) ELSE bl[s]]

\* The validity test off by one: a baseline one sample short passes.
IsBaselineValid_early(cfg, b) == b.sample_count + 1 >= cfg.min_baseline_samples

\* The validity test on the count the baseline had before the update.
IsBaselineValid_before(cfg, b) == b.sample_count - 1 >= cfg.min_baseline_samples

\* process_reading, line 147
IsBaselineValid(cfg, b) == b.sample_count >= cfg.min_baseline_samples

\* 0.8 * anomaly_threshold
SoftThreshold(cfg) == RMul(cfg.anomaly_threshold, <<4, 5>>)

\* A scan that counts each other sensor once, by its latest qualifying
\* reading.
find_correlated_anomalies_dedup(cfg, bl, recent, exclude_sensor, time) ==
    LET qualifies(e) ==
            /\ e.reading.sensor_name # exclude_sensor
            /\ e.t <= time
            /\ time - e.t < cfg.correlation_window_ms
            /\ e.reading.sensor_name \in DOMAIN bl
            /\ RLess(RMul(RMul(cfg.anomaly_threshold, <<4, 5>>),
                          RMul(cfg.anomaly_threshold, <<4, 5>>)),
                     ZScoreSq(bl[e.reading.sensor_name], e.reading.value))
        kept == {i \in 1..Len(recent) :
                    /\ qualifies(recent[i])
                    /\ \A j \in (i + 1)..Len(recent) :
                          ~(qualifies(recent[j])
                              /\ recent[j].reading.sensor_name = recent[i].reading.sensor_name)}
        RECURSIVE pick(_)
        pick(i) == IF i > Len(recent) THEN <<>>
                   ELSE IF i \in kept THEN <<recent[i]>> \o pick(i + 1)
                   ELSE pick(i + 1)
    IN  pick(1)

\* FusionEngine::find_correlated_anomalies
find_correlated_anomalies(cfg, bl, recent, exclude_sensor, time) ==
    SelectSeq(recent, LAMBDA e :
        /\ e.reading.sensor_name # exclude_sensor
        /\ e.t <= time
        /\ time - e.t < cfg.correlation_window_ms
        /\ e.reading.sensor_name \in DOMAIN bl
        /\ is_anomalous(bl[e.reading.sensor_name], e.reading.value, SoftThreshold(cfg)))

\* classify_event with the multi-sensor test passed by a single correlated
\* reading.
classify_event_any(primary, correlated) ==
    LET sensor_type == get_sensor_type(primary.sensor_name) IN
    IF Len(correlated) >= 1 THEN "MultiSensorEvent"
    ELSE CASE sensor_type \in {"emf", "magnetometer"} -> "EmfAnomaly"
           [] sensor_type \in {"temperature", "ir_temperature", "thermal"} -> "TemperatureAnomaly"
           [] sensor_type \in {"audio", "microphone"} -> "AudioAnomaly"
           [] sensor_type \in {"camera", "ir_camera"} -> "VisualAnomaly"
           [] sensor_type \in {"pir", "motion", "laser"} -> "MotionDetected"
           [] sensor_type = "infrasound" -> "InfrasoundDetected"
           [] sensor_type \in {"sdr", "rf", "radio"} -> "RfAnomaly"
           [] OTHER -> "EmfAnomaly"

\* FusionEngine::classify_event
classify_event(primary, correlated) ==
    LET sensor_type == get_sensor_type(primary.sensor_name) IN
    IF Len(correlated) >= 2 THEN "MultiSensorEvent"
    ELSE CASE sensor_type \in {"emf", "magnetometer"} -> "EmfAnomaly"
           [] sensor_type \in {"temperature", "ir_temperature", "thermal"} -> "TemperatureAnomaly"
           [] sensor_type \in {"audio", "microphone"} -> "AudioAnomaly"
           [] sensor_type \in {"camera", "ir_camera"} -> "VisualAnomaly"
           [] sensor_type \in {"pir", "motion", "laser"} -> "MotionDetected"
           [] sensor_type = "infrasound" -> "InfrasoundDetected"
           [] sensor_type \in {"sdr", "rf", "radio"} -> "RfAnomaly"
           [] OTHER -> "EmfAnomaly"

\* The snapshot of a reading against a baseline (lines 190-197, 205-212)
Snapshot(bl, reading) ==
    [sensor_name |-> reading.sensor_name,
     sensor_type |-> get_sensor_type(reading.sensor_name),
     value |-> reading.value,
     baseline |-> bl[reading.sensor_name].mean,
     deviation |-> z_score(bl[reading.sensor_name], reading.value)]

\* The snapshots of the correlated readings attached newest first.
AddSnapshots_newest_first(event, bl, correlated) ==
    [event EXCEPT !.sensor_data =
        @ \o [i \in 1..Len(correlated) |->
                Snapshot(bl, correlated[Len(correlated) + 1 - i].reading)]]

\* process_reading, lines 202-214: the snapshots of the correlated readings,
\* in the order of the scan.
RECURSIVE AddSnapshots(_, _, _)
AddSnapshots(event, bl, correlated) ==
    IF correlated = <<>> THEN event
    ELSE AddSnapshots(with_sensor_data(event, Snapshot(bl, Head(correlated).reading)),
                      bl, Tail(correlated))

\* format!("{:.2}", z_score): hundredths, rounded
FormatCenti(z) == (IF z < 0 THEN -1 ELSE 1) * ((Abs(z) + 5) \div 10)

\* process_reading, line 179
FinalConfidence(base_confidence, correlated) ==
    Min2(base_confidence + Len(correlated) * 100, 990)

\* The test of line 181 left out: no event is held back.
BelowMinConfidence_never(cfg, final_confidence) == FALSE

\* process_reading, line 181
BelowMinConfidence(cfg, final_confidence) == final_confidence < cfg.min_confidence

\* process_reading, lines 161-214, on the state the first two sections left:
\* the event the call builds, or None.
DetectEvent(cfg, bl, recent, reading, t) ==
    LET baseline == bl[reading.sensor_name]
        z == z_score(baseline, reading.value)
        base_confidence == calculate_confidence(cfg, z)
        correlated == find_correlated_anomalies(cfg, bl, recent, reading.sensor_name, t)
        final_confidence == FinalConfidence(base_confidence, correlated)
        event_type == classify_event(reading, correlated)
        first == [with_sensor_data(ParanormalEvent_new(event_type, final_confidence, t),
                                   Snapshot(bl, reading))
                    EXCEPT !.metadata = [z_score |-> FormatCenti(z),
                                         correlated_sensors |-> Len(correlated)]]
    IN  IF ~AbsZAbove(baseline, reading.value, cfg.anomaly_threshold) THEN None
        ELSE IF BelowMinConfidence(cfg, final_confidence) THEN None
        ELSE Some(AddSnapshots(first, bl, correlated))

----------------------------------------------------------------------------
(* The fusion engine: readings arrive, a consumer takes events from the    *)
(* channel, baselines are reset, the clock advances.                       *)

SampleCount(bl, sensor_name) ==
    IF sensor_name \in DOMAIN bl THEN bl[sensor_name].sample_count ELSE 0

\* process_reading up to its only suspension point, the send of line 217;
\* a call that builds no event returns here.
ProcessReadingStep(reading) ==
    /\ pending = None
    /\ n_readings < MaxReadings
    /\ SampleCount(baselines, reading.sensor_name) < MaxSamples
    /\ LET recent == StoreReading(config, recent_readings, now, reading)
           bl == UpdateBaseline(baselines, reading)
           valid == IsBaselineValid(config, bl[reading.sensor_name])
           event == IF valid THEN DetectEvent(config, bl, recent, reading, now) ELSE None
       IN  /\ recent_readings' = recent
           /\ baselines' = bl
           /\ n_readings' = n_readings + 1
           /\ IF event = None
                THEN /\ pending' = None
                     /\ ret' = Some([sensor_name |-> reading.sensor_name,
                                     value |-> reading.value,
                                     sample_count |-> bl[reading.sensor_name].sample_count,
                                     event |-> None, send |-> "none"])
                ELSE /\ pending' = Some([reading |-> reading,
                                         sample_count |-> bl[reading.sensor_name].sample_count,
                                         event |-> event[1]])
                     /\ ret' = ret
    /\ UNCHANGED <<config, channel, rx_open, n_resets, now>>

ProcessReading(reading) ==
    /\ ProcessReadingStep(reading)
    /\ UNCHANGED <<trigger_vars, recorder_vars, main_vars>>
    /\ UNCHANGED side_vars

\* Whether event_tx.send(..).await can complete: a slot is free, or the
\* receiver is gone (tokio's bounded Sender::send waits while the channel is
\* full and open).
SendReady == Len(channel) < ChannelCapacity \/ ~rx_open

\* process_reading from the completion of the send to its return (217-219).
\* The result of the send is discarded; the event is returned either way.
CompleteSendStep ==
    /\ pending # None
    /\ SendReady
    /\ channel' = IF rx_open THEN Append(channel, pending[1].event) ELSE channel
    /\ ret' = Some([sensor_name |-> pending[1].reading.sensor_name,
                    value |-> pending[1].reading.value,
                    sample_count |-> pending[1].sample_count,
                    event |-> Some(pending[1].event),
                    send |-> IF rx_open THEN "ok" ELSE "closed"])
    /\ pending' = None
    /\ UNCHANGED <<config, baselines, recent_readings, rx_open, n_readings, n_resets, now>>

CompleteSend ==
    /\ CompleteSendStep
    /\ UNCHANGED <<trigger_vars, recorder_vars, main_vars>>
    /\ UNCHANGED side_vars

\* The consumer's rx.recv()
Recv ==
    /\ rx_open
    /\ channel # <<>>
    /\ channel' = Tail(channel)
    /\ UNCHANGED <<config, baselines, recent_readings, rx_open, pending, ret, n_readings,
                   n_resets, now>>
    /\ UNCHANGED <<trigger_vars, recorder_vars, main_vars>>
    /\ UNCHANGED side_vars

\* reset_baseline with the entry API of process_reading: a sensor without a
\* baseline is given a fresh one.
reset_baseline_inserts(bl, sensor_name) ==
    [s \in DOMAIN bl \cup {sensor_name} |->
        IF s = sensor_name THEN SensorBaseline_new ELSE bl[s]]

\* FusionEngine::reset_baseline
reset_baseline(bl, sensor_name) ==
    IF sensor_name \in DOMAIN bl THEN [bl EXCEPT ![sensor_name] = SensorBaseline_new] ELSE bl

\* FusionEngine::reset_all_baselines
reset_all_baselines(bl) ==
    [s \in DOMAIN bl |-> SensorBaseline_new]

ResetBaseline(sensor_name) ==
    /\ pending = None
    /\ SampleCount(baselines, sensor_name) > 0
    /\ n_resets < MaxResets
    /\ baselines' = reset_baseline(baselines, sensor_name)
    /\ n_resets' = n_resets + 1
    /\ UNCHANGED <<config, recent_readings, channel, rx_open, pending, ret, n_readings, now>>
    /\ UNCHANGED <<trigger_vars, recorder_vars, main_vars>>
    /\ UNCHANGED side_vars

ResetAllBaselines ==
    /\ pending = None
    /\ \E s \in SensorNames : SampleCount(baselines, s) > 0
    /\ n_resets < MaxResets
    /\ baselines' = reset_all_baselines(baselines)
    /\ n_resets' = n_resets + 1
    /\ UNCHANGED <<config, recent_readings, channel, rx_open, pending, ret, n_readings, now>>
    /\ UNCHANGED <<trigger_vars, recorder_vars, main_vars>>
    /\ UNCHANGED side_vars

\* A call of reset_baseline for any sensor name, with or without a baseline;
\* fn_args keeps the argument of the call.
ResetBaselineCall(sensor_name) ==
    /\ pending = None
    /\ n_resets < MaxResets
    /\ baselines' = reset_baseline(baselines, sensor_name)
    /\ n_resets' = n_resets + 1
    /\ fn_args' = [op |-> "reset_baseline", sensor_name |-> sensor_name]
    /\ UNCHANGED <<config, recent_readings, channel, rx_open, pending, ret, n_readings, now>>
    /\ UNCHANGED <<trigger_vars, recorder_vars, main_vars>>
    /\ UNCHANGED <<fn_result, source_vars, call_vars>>

Tick ==
    /\ now < MaxTime
    /\ now' = now + 1
    /\ UNCHANGED <<fusion_vars, trigger_vars, recorder_vars, main_vars>>
    /\ UNCHANGED side_vars

----------------------------------------------------------------------------
(* TriggerCondition, TriggerAction, Trigger *)

\* The conditions: records tagged by kind.
CondEventType(et) == [kind |-> "EventType", et |-> et]
CondConfidenceAbove(x) == [kind |-> "ConfidenceAbove", threshold |-> x]
CondEventBurst(count, window) == [kind |-> "EventBurst", count |-> count, window |-> window]
CondSensorAnomaly(pattern, x) ==
    [kind |-> "SensorAnomaly", sensor_pattern |-> pattern, threshold |-> x]
CondAll(conditions) == [kind |-> "All", conditions |-> conditions]
CondAny(conditions) == [kind |-> "Any", conditions |-> conditions]

\* TriggerCondition::check.  Confidence and deviation thresholds are in
\* thousandths, like the values they are compared with.
\* check with the window of EventBurst closed at its far end: an event exactly
\* one window back counts.
RECURSIVE check_closed(_, _, _)
check_closed(c, event, history) ==
    CASE c.kind = "EventType" -> event.event_type = c.et
      [] c.kind = "ConfidenceAbove" -> event.confidence > c.threshold
      [] c.kind = "EventBurst" ->
            LET cutoff == event.timestamp - c.window
                recent_count ==
                    Cardinality({i \in 1..Len(history) : history[i].timestamp >= cutoff}) + 1
            IN  recent_count >= c.count
      [] c.kind = "SensorAnomaly" ->
            \E i \in 1..Len(event.sensor_data) :
                /\ Contains(to_lowercase(event.sensor_data[i].sensor_name),
                            to_lowercase(c.sensor_pattern))
                /\ Abs(event.sensor_data[i].deviation) > c.threshold
      [] c.kind = "All" ->
            \A i \in 1..Len(c.conditions) : check_closed(c.conditions[i], event, history)
      [] c.kind = "Any" ->
            \E i \in 1..Len(c.conditions) : check_closed(c.conditions[i], event, history)

RECURSIVE check(_, _, _)
check(c, event, history) ==
    CASE c.kind = "EventType" -> event.event_type = c.et
      [] c.kind = "ConfidenceAbove" -> event.confidence > c.threshold
      [] c.kind = "EventBurst" ->
            LET cutoff == event.timestamp - c.window
                recent_count ==
                    Cardinality({i \in 1..Len(history) : history[i].timestamp > cutoff}) + 1
            IN  recent_count >= c.count
      [] c.kind = "SensorAnomaly" ->
            \E i \in 1..Len(event.sensor_data) :
                /\ Contains(to_lowercase(event.sensor_data[i].sensor_name),
                            to_lowercase(c.sensor_pattern))
                /\ Abs(event.sensor_data[i].deviation) > c.threshold
      [] c.kind = "All" ->
            \A i \in 1..Len(c.conditions) : check(c.conditions[i], event, history)
      [] c.kind = "Any" ->
            \E i \in 1..Len(c.conditions) : check(c.conditions[i], event, history)

\* The actions: records tagged by kind.
ActLog(level, message) == [kind |-> "Log", level |-> level, message |-> message]
ActPlaySound(file) == [kind |-> "PlaySound", file |-> file]
ActNotify(title) == [kind |-> "Notify", title |-> title]
ActStartRecording(name) == [kind |-> "StartRecording", name |-> name]
ActMarkTimestamp(label) == [kind |-> "MarkTimestamp", label |-> label]
ActMultiple(actions) == [kind |-> "Multiple", actions |-> actions]

\* TriggerAction::execute: the side effects of an action, in order.  Every
\* arm of the match ends in Ok(()): what a spawn or a file write returns is
\* discarded (let _ = ...), and Multiple only passes on what its children
\* return, so execute has no Err outcome.
RECURSIVE Effects(_, _)
Effects(a, event) ==
    IF a.kind = "Multiple"
        THEN IF a.actions = <<>> THEN <<>>
             ELSE Effects(Head(a.actions), event)
                    \o Effects([a EXCEPT !.actions = Tail(@)], event)
        ELSE <<[action |-> a.kind, event |-> event.id]>>

execute(a, event) == [result |-> "Ok", effects |-> Effects(a, event)]

\* Trigger::new (the cooldown is 5 s) and with_cooldown
Trigger_new(name, condition, action) ==
    [name |-> name, enabled |-> TRUE, condition |-> condition, action |-> action,
     cooldown |-> 5000, last_triggered |-> None]

with_cooldown(trigger, cooldown) == [trigger EXCEPT !.cooldown = cooldown]

\* The cooldown test with <= for <: an event exactly one cooldown after the
\* last firing is held back.
InCooldown_inclusive(trigger, event) ==
    /\ trigger.last_triggered # None
    /\ event.timestamp >= trigger.last_triggered[1]
    /\ event.timestamp - trigger.last_triggered[1] <= trigger.cooldown

\* check_and_execute, lines 206-213: the event falls in the cooldown.
\* duration_since is Err when the event is earlier than last_triggered,
\* and the test is then passed over.
InCooldown(trigger, event) ==
    /\ trigger.last_triggered # None
    /\ event.timestamp >= trigger.last_triggered[1]
    /\ event.timestamp - trigger.last_triggered[1] < trigger.cooldown

\* check_and_execute with last_triggered set before the cooldown test, so
\* that a trigger held back by its cooldown or its condition is stamped too.
check_and_execute_stamps_first(trigger, event, history) ==
    LET stamped == [trigger EXCEPT !.last_triggered = Some(event.timestamp)] IN
    IF ~trigger.enabled THEN [trigger |-> trigger, result |-> "Ok(false)", effects |-> <<>>]
    ELSE IF InCooldown(trigger, event)
        THEN [trigger |-> stamped, result |-> "Ok(false)", effects |-> <<>>]
    ELSE IF ~check(trigger.condition, event, history)
        THEN [trigger |-> stamped, result |-> "Ok(false)", effects |-> <<>>]
    ELSE LET done == execute(trigger.action, event) IN
         IF done.result # "Ok"
            THEN [trigger |-> trigger, result |-> "Err", effects |-> done.effects]
            ELSE [trigger |-> stamped, result |-> "Ok(true)", effects |-> done.effects]

\* Trigger::check_and_execute: the trigger after the call, what the call
\* returned (Ok(true), Ok(false) or Err) and the side effects of its action.
check_and_execute(trigger, event, history) ==
    IF ~trigger.enabled THEN [trigger |-> trigger, result |-> "Ok(false)", effects |-> <<>>]
    ELSE IF InCooldown(trigger, event)
        THEN [trigger |-> trigger, result |-> "Ok(false)", effects |-> <<>>]
    ELSE IF ~check(trigger.condition, event, history)
        THEN [trigger |-> trigger, result |-> "Ok(false)", effects |-> <<>>]
    ELSE LET done == execute(trigger.action, event) IN
         IF done.result # "Ok"
            THEN [trigger |-> trigger, result |-> "Err", effects |-> done.effects]
            ELSE [trigger |-> [trigger EXCEPT !.last_triggered = Some(event.timestamp)],
                  result |-> "Ok(true)", effects |-> done.effects]

----------------------------------------------------------------------------
(* TriggerManager *)

\* TriggerManager::new sets history_limit
history_limit == 1000

\* The loop of process_event with what each trigger did put in front of what
\* the triggers before it did.
RECURSIVE RunTriggers_newest_first(_, _, _, _)
RunTriggers_newest_first(ts, i, event, history) ==
    IF i > Len(ts) THEN [triggers |-> ts, triggered |-> <<>>, effects |-> <<>>, result |-> "Ok"]
    ELSE LET one == check_and_execute(ts[i], event, history)
             ts1 == [ts EXCEPT ![i] = one.trigger]
         IN  IF one.result = "Err"
                THEN [triggers |-> ts1, triggered |-> <<>>, effects |-> one.effects,
                      result |-> "Err"]
                ELSE LET rest == RunTriggers_newest_first(ts1, i + 1, event, history)
                     IN  [rest EXCEPT
                            !.triggered = @ \o (IF one.result = "Ok(true)"
                                                  THEN <<ts[i].name>> ELSE <<>>),
                            !.effects = @ \o one.effects]

\* process_event, lines 266-270: the loop over the triggers from index i on,
\* left by `?` at the first Err.
RECURSIVE RunTriggers(_, _, _, _)
RunTriggers(ts, i, event, history) ==
    IF i > Len(ts) THEN [triggers |-> ts, triggered |-> <<>>, effects |-> <<>>, result |-> "Ok"]
    ELSE LET one == check_and_execute(ts[i], event, history)
             ts1 == [ts EXCEPT ![i] = one.trigger]
         IN  IF one.result = "Err"
                THEN [triggers |-> ts1, triggered |-> <<>>, effects |-> one.effects,
                      result |-> "Err"]
                ELSE LET rest == RunTriggers(ts1, i + 1, event, history)
                     IN  [rest EXCEPT
                            !.triggered = (IF one.result = "Ok(true)"
                                             THEN <<ts[i].name>> ELSE <<>>) \o @,
                            !.effects = one.effects \o @]

\* The trimming of process_event taken from the wrong end: the newest events
\* are dropped.
Trim_newest(history) ==
    IF Len(history) > history_limit THEN SubSeq(history, 1, history_limit) ELSE history

\* process_event, lines 275-278
RECURSIVE Trim(_)
Trim(history) == IF Len(history) > history_limit THEN Trim(Tail(history)) ELSE history

\* process_event with the event put into the history before the triggers are
\* run, so that their conditions find it there.
process_event_appended_first(ts, history, event) ==
    LET run == RunTriggers(ts, 1, event, Append(history, event))
    IN  [triggers |-> run.triggers,
         event_history |-> IF run.result = "Err" THEN history
                           ELSE Trim(Append(history, event)),
         result |-> run.result,
         triggered |-> run.triggered,
         effects |-> run.effects]

\* TriggerManager::process_event: the manager after the call and what the
\* call returned.
process_event(ts, history, event) ==
    LET run == RunTriggers(ts, 1, event, history)
    IN  [triggers |-> run.triggers,
         event_history |-> IF run.result = "Err" THEN history
                           ELSE Trim(Append(history, event)),
         result |-> run.result,
         triggered |-> run.triggered,
         effects |-> run.effects]

\* TriggerManager::set_trigger_enabled: the first trigger of that name
set_trigger_enabled(ts, name, enabled) ==
    IF \E i \in 1..Len(ts) : ts[i].name = name
        THEN LET i == CHOOSE k \in 1..Len(ts) :
                        ts[k].name = name /\ \A m \in 1..(k - 1) : ts[m].name # name
             IN  [ts EXCEPT ![i].enabled = enabled]
        ELSE ts

----------------------------------------------------------------------------
(* The trigger manager on its own: a caller hands it events of any        *)
(* timestamp and switches triggers on and off.                             *)

\* The triggers the caller added.
ModelTriggers ==
    <<with_cooldown(Trigger_new("confident", CondConfidenceAbove(500),
                                ActLog("info", "event")), 10),
      with_cooldown(Trigger_new("burst", CondEventBurst(3, 60),
                                ActMultiple(<<ActNotify("burst"),
                                              ActStartRecording("burst_recording")>>)), 0)>>

TimeStamps == {0, 2, 5, 12}
Confidences == {300, 800}

\* An event as a caller of process_event builds it.
CallerEvent(t, confidence) ==
    with_sensor_data(ParanormalEvent_new("EmfAnomaly", confidence, t),
                     [sensor_name |-> EmfName, sensor_type |-> "emf", value |-> 10,
                      baseline |-> RInt(0), deviation |-> 3500])

TriggerInit ==
    /\ triggers = ModelTriggers
    /\ event_history = <<>>
    /\ tm_ret = None
    /\ n_events = 0

ProcessEvent(event) ==
    /\ n_events < MaxEvents
    /\ LET r == process_event(triggers, event_history, event)
       IN  /\ triggers' = r.triggers
           /\ event_history' = r.event_history
           /\ tm_ret' = Some([event |-> event, before |-> triggers,
                              history |-> event_history, result |-> r.result,
                              triggered |-> r.triggered, effects |-> r.effects])
    /\ n_events' = n_events + 1
    /\ UNCHANGED <<fusion_vars, recorder_vars, main_vars, now>>
    /\ UNCHANGED side_vars

SetTriggerEnabled(name, enabled) ==
    /\ \E i \in 1..Len(triggers) : triggers[i].name = name /\ triggers[i].enabled # enabled
    /\ triggers' = set_trigger_enabled(triggers, name, enabled)
    /\ UNCHANGED <<event_history, tm_ret, n_events>>
    /\ UNCHANGED <<fusion_vars, recorder_vars, main_vars, now>>
    /\ UNCHANGED side_vars

----------------------------------------------------------------------------
(* RecordingSession, EventRecorder *)

\* RecordingSession::new: the id is "session_<unix seconds>"
RecordingSession_new(name, location, t) ==
    [id |-> t \div 1000, name |-> name, location |-> location, start_time |-> t,
     end_time |-> None, event_count |-> 0, notes |-> <<>>]

\* RecordingSession::end
end(session, t) == [session EXCEPT !.end_time = Some(t)]

\* serde_json::to_string_pretty of a session, serde_json::to_string of an
\* event: the text is stood for by the value it encodes, tagged.
SessionJson(session) == <<"session.json", session>>
EventLine(event) == <<"event", event>>

\* The line record_sensor writes (a SensorRecord)
SensorLine(snapshot, t) ==
    <<"sensor", [timestamp |-> t, sensor_name |-> snapshot.sensor_name,
                 value |-> snapshot.value]>>

\* EventRecorder::new
EventRecorder_new == [session |-> None, event_writer |-> None, sensor_writer |-> None]

\* A directory as create_dir_all leaves it: no file yet
EmptyDir == [session_json |-> None, events |-> None, sensors |-> None]

\* create_dir_all(session_path)
CreateDir(files, dir) ==
    [d \in DOMAIN files \cup {dir} |-> IF d \in DOMAIN files THEN files[d] ELSE EmptyDir]

\* OpenOptions::new().create(true).append(true).open: what a file holds stays
OpenAppend(files, dir, file) ==
    [files EXCEPT ![dir][file] = IF @ = None THEN Some(<<>>) ELSE @]

\* std::fs::write of session.json
WriteMetadata(files, session) ==
    [files EXCEPT ![session.id].session_json = Some(SessionJson(session))]

\* BufWriter::new
BufWriter_new(dir) == [dir |-> dir, buf |-> <<>>]

\* BufWriter::flush that succeeds: the buffered lines reach the file
FlushTo(files, w, file) ==
    [files EXCEPT ![w.dir][file] = Some(@[1] \o w.buf)]

\* A BufWriter is dropped (an Option<BufWriter> is overwritten or set to
\* None): drop flushes what is buffered and discards the error, if any.
DropWriter(files, writer, file, io_ok) ==
    IF writer = None \/ ~io_ok THEN files ELSE FlushTo(files, writer[1], file)

StartFailures == {"none", "create_dir", "open_events", "open_sensors", "write_metadata"}

\* start_session with the session and the writers put in place before
\* session.json is written.
start_session_assigns_early(rec, files, name, location, t, fail, drop_ok) ==
    LET session == RecordingSession_new(name, location, t)
        fs1 == CreateDir(files, session.id)
        fs2 == OpenAppend(fs1, session.id, "events")
        fs3 == OpenAppend(fs2, session.id, "sensors")
        fs4 == WriteMetadata(fs3, session)
        started == [session |-> Some(session),
                    event_writer |-> Some(BufWriter_new(session.id)),
                    sensor_writer |-> Some(BufWriter_new(session.id))]
        dropped(f) == DropWriter(DropWriter(f, rec.event_writer, "events", drop_ok),
                                 rec.sensor_writer, "sensors", drop_ok)
    IN  CASE fail = "create_dir" -> [rec |-> rec, fs |-> files, result |-> "Err"]
          [] fail = "open_events" -> [rec |-> rec, fs |-> fs1, result |-> "Err"]
          [] fail = "open_sensors" -> [rec |-> rec, fs |-> fs2, result |-> "Err"]
          [] fail = "write_metadata" ->
                [rec |-> started, fs |-> dropped(fs3), result |-> "Err"]
          [] OTHER -> [rec |-> started, fs |-> dropped(fs4), result |-> "Ok"]

\* EventRecorder::start_session at time t.  fail names the step whose I/O
\* fails; drop_ok is whether the flush of the writers it replaces succeeds.
start_session(rec, files, name, location, t, fail, drop_ok) ==
    LET session == RecordingSession_new(name, location, t)
        fs1 == CreateDir(files, session.id)
        fs2 == OpenAppend(fs1, session.id, "events")
        fs3 == OpenAppend(fs2, session.id, "sensors")
        fs4 == WriteMetadata(fs3, session)
        fs5 == DropWriter(DropWriter(fs4, rec.event_writer, "events", drop_ok),
                          rec.sensor_writer, "sensors", drop_ok)
    IN  CASE fail = "create_dir" -> [rec |-> rec, fs |-> files, result |-> "Err"]
          [] fail = "open_events" -> [rec |-> rec, fs |-> fs1, result |-> "Err"]
          [] fail = "open_sensors" -> [rec |-> rec, fs |-> fs2, result |-> "Err"]
          [] fail = "write_metadata" -> [rec |-> rec, fs |-> fs3, result |-> "Err"]
          [] OTHER ->
                [rec |-> [session |-> Some(session),
                          event_writer |-> Some(BufWriter_new(session.id)),
                          sensor_writer |-> Some(BufWriter_new(session.id))],
                 fs |-> fs5, result |-> "Ok"]

\* EventRecorder::end_session at time t.  The session is taken first; a
\* failed write of session.json returns before the writers are touched.  A
\* failed flush is discarded (.ok()), and so is the one of the drop.
end_session(rec, files, t, meta_ok, events_ok, sensors_ok) ==
    IF rec.session = None
        THEN [rec |-> rec, fs |-> files, result |-> "Ok", session |-> None]
    ELSE LET session == end(rec.session[1], t) IN
         IF ~meta_ok
            THEN [rec |-> [rec EXCEPT !.session = None], fs |-> files,
                  result |-> "Err", session |-> None]
            ELSE [rec |-> EventRecorder_new,
                  fs |-> DropWriter(DropWriter(WriteMetadata(files, session),
                                               rec.event_writer, "events", events_ok),
                                    rec.sensor_writer, "sensors", sensors_ok),
                  result |-> "Ok", session |-> Some(session)]

RecordOutcomes == {"ok", "write_err", "flush_err"}

\* record_event without its flush: the line is left in the BufWriter.
record_event_unflushed(rec, files, event, io) ==
    IF rec.event_writer = None THEN [rec |-> rec, fs |-> files, result |-> "Ok"]
    ELSE IF io = "write_err" THEN [rec |-> rec, fs |-> files, result |-> "Err"]
    ELSE [rec |-> [rec EXCEPT
                    !.event_writer = Some([@[1] EXCEPT !.buf = Append(@, EventLine(event))]),
                    !.session = IF @ = None THEN None
                                ELSE Some([@[1] EXCEPT !.event_count = @ + 1])],
          fs |-> files, result |-> "Ok"]

\* EventRecorder::record_event.  io is what the I/O does: the writeln fails,
\* the flush fails (the line stays in the buffer of the BufWriter), or both
\* succeed.
record_event(rec, files, event, io) ==
    IF rec.event_writer = None THEN [rec |-> rec, fs |-> files, result |-> "Ok"]
    ELSE IF io = "write_err" THEN [rec |-> rec, fs |-> files, result |-> "Err"]
    ELSE LET writer == [rec.event_writer[1] EXCEPT !.buf = Append(@, EventLine(event))] IN
         IF io = "flush_err"
            THEN [rec |-> [rec EXCEPT !.event_writer = Some(writer)], fs |-> files,
                  result |-> "Err"]
            ELSE [rec |-> [rec EXCEPT
                            !.event_writer = Some([writer EXCEPT !.buf = <<>>]),
                            !.session = IF @ = None THEN None
                                        ELSE Some([@[1] EXCEPT !.event_count = @ + 1])],
                  fs |-> FlushTo(files, writer, "events"),
                  result |-> "Ok"]

SensorOutcomes == {"ok", "spill", "write_err"}

\* EventRecorder::record_sensor at time t.  io is what the writeln does: it
\* buffers the line, it first writes out a buffer the line does not fit in
\* ("spill"), or it fails.
record_sensor(rec, files, snapshot, t, io) ==
    IF rec.sensor_writer = None THEN [rec |-> rec, fs |-> files, result |-> "Ok"]
    ELSE IF io = "write_err" THEN [rec |-> rec, fs |-> files, result |-> "Err"]
    ELSE LET w == rec.sensor_writer[1]
             spilled == io = "spill" /\ w.buf # <<>>
         IN  [rec |-> [rec EXCEPT !.sensor_writer =
                          Some([w EXCEPT !.buf = Append(IF spilled THEN <<>> ELSE @,
                                                        SensorLine(snapshot, t))])],
              fs |-> IF spilled THEN FlushTo(files, w, "sensors") ELSE files,
              result |-> "Ok"]

\* EventRecorder::flush
flush(rec, files, events_ok, sensors_ok) ==
    LET fs1 == IF rec.event_writer # None /\ events_ok
                 THEN FlushTo(files, rec.event_writer[1], "events") ELSE files
        rec1 == IF rec.event_writer # None /\ events_ok
                  THEN [rec EXCEPT !.event_writer = Some([@[1] EXCEPT !.buf = <<>>])]
                  ELSE rec
    IN  IF rec.event_writer # None /\ ~events_ok
            THEN [rec |-> rec, fs |-> files, result |-> "Err"]
        ELSE IF rec.sensor_writer = None THEN [rec |-> rec1, fs |-> fs1, result |-> "Ok"]
        ELSE IF ~sensors_ok THEN [rec |-> rec1, fs |-> fs1, result |-> "Err"]
        ELSE [rec |-> [rec1 EXCEPT !.sensor_writer = Some([@[1] EXCEPT !.buf = <<>>])],
              fs |-> FlushTo(fs1, rec.sensor_writer[1], "sensors"),
              result |-> "Ok"]

----------------------------------------------------------------------------
(* The recorder on its own: a caller starts and ends sessions and records *)
(* events and sensor snapshots; I/O may fail; the process may crash.       *)

RecorderInit ==
    /\ recorder = EventRecorder_new
    /\ fs = <<>>
    /\ rec_ret = None
    /\ acked = <<>>
    /\ recorded = <<>>
    /\ n_calls = 0

\* The events handed to the recorder
RecordedEvents == {CallerEvent(0, 800), CallerEvent(5, 300)}

Acked(dir) == IF dir \in DOMAIN acked THEN acked[dir] ELSE <<>>

StartSession(fail, drop_ok) ==
    /\ n_calls < MaxCalls
    /\ LET r == start_session(recorder, fs, "investigation", "barn", now, fail, drop_ok)
       IN  /\ recorder' = r.rec
           /\ fs' = r.fs
           /\ rec_ret' = Some([op |-> "start_session", result |-> r.result,
                               before |-> recorder, fs_before |-> fs, session |-> None])
           /\ recorded' = IF r.result = "Ok" THEN <<>> ELSE recorded
    /\ n_calls' = n_calls + 1
    /\ UNCHANGED <<acked, fusion_vars, trigger_vars, main_vars, now>>
    /\ UNCHANGED side_vars

EndSession(meta_ok, events_ok, sensors_ok) ==
    /\ n_calls < MaxCalls
    /\ LET r == end_session(recorder, fs, now, meta_ok, events_ok, sensors_ok)
       IN  /\ recorder' = r.rec
           /\ fs' = r.fs
           /\ rec_ret' = Some([op |-> "end_session", result |-> r.result,
                               before |-> recorder, fs_before |-> fs,
                               session |-> r.session])
    /\ n_calls' = n_calls + 1
    /\ UNCHANGED <<acked, recorded, fusion_vars, trigger_vars, main_vars, now>>
    /\ UNCHANGED side_vars

RecordEvent(event, io) ==
    /\ n_calls < MaxCalls
    /\ LET r == record_event(recorder, fs, event, io)
           dir == IF recorder.session = None THEN -1 ELSE recorder.session[1].id
       IN  /\ recorder' = r.rec
           /\ fs' = r.fs
           /\ rec_ret' = Some([op |-> "record_event", result |-> r.result,
                               before |-> recorder, fs_before |-> fs, session |-> None])
           /\ acked' = IF r.result = "Ok" /\ recorder.session # None
                         THEN [d \in DOMAIN acked \cup {dir} |->
                                  IF d = dir THEN Append(Acked(d), EventLine(event))
                                  ELSE acked[d]]
                         ELSE acked
           /\ recorded' = IF r.result = "Ok" /\ recorder.session # None
                            THEN Append(recorded, EventLine(event))
                            ELSE recorded
    /\ n_calls' = n_calls + 1
    /\ UNCHANGED <<fusion_vars, trigger_vars, main_vars, now>>
    /\ UNCHANGED side_vars

RecordSensor(io) ==
    /\ n_calls < MaxCalls
    /\ LET r == record_sensor(recorder, fs,
                              [sensor_name |-> EmfName, value |-> 10], now, io)
       IN  /\ recorder' = r.rec
           /\ fs' = r.fs
           /\ rec_ret' = Some([op |-> "record_sensor", result |-> r.result,
                               before |-> recorder, fs_before |-> fs, session |-> None])
    /\ n_calls' = n_calls + 1
    /\ UNCHANGED <<acked, recorded, fusion_vars, trigger_vars, main_vars, now>>
    /\ UNCHANGED side_vars

Flush(events_ok, sensors_ok) ==
    /\ n_calls < MaxCalls
    /\ LET r == flush(recorder, fs, events_ok, sensors_ok)
       IN  /\ recorder' = r.rec
           /\ fs' = r.fs
           /\ rec_ret' = Some([op |-> "flush", result |-> r.result,
                               before |-> recorder, fs_before |-> fs, session |-> None])
    /\ n_calls' = n_calls + 1
    /\ UNCHANGED <<acked, recorded, fusion_vars, trigger_vars, main_vars, now>>
    /\ UNCHANGED side_vars

\* The process dies: what the BufWriters hold is lost, the files stay, and
\* the next process builds its recorder with EventRecorder::new.
Crash ==
    /\ recorder # EventRecorder_new
    /\ recorder' = EventRecorder_new
    /\ rec_ret' = Some([op |-> "crash", result |-> "Ok",
                        before |-> recorder, fs_before |-> fs, session |-> None])
    /\ UNCHANGED <<fs, acked, recorded, n_calls, fusion_vars, trigger_vars, main_vars, now>>
    /\ UNCHANGED side_vars

\* A second passes on the clock.
TickSecond ==
    /\ now < MaxSeconds * 1000
    /\ now' = now + 1000
    /\ UNCHANGED <<fusion_vars, trigger_vars, recorder_vars, main_vars>>
    /\ UNCHANGED side_vars

----------------------------------------------------------------------------
(* main: the sensor task and the event task run until main, woken by the    *)
(* shutdown signal, has ended the session and returned.                     *)

\* FusionEngine::new
FusionInit ==
    /\ config \in Configs
    /\ baselines = <<>>
    /\ recent_readings = <<>>
    /\ channel = <<>>
    /\ rx_open = TRUE
    /\ pending = None
    /\ ret = None
    /\ n_readings = 0
    /\ n_resets = 0

\* main and the event task at the start
TasksInit ==
    /\ main_pc = "running"
    /\ e_pc = "recv"
    /\ e_event = None
    /\ in_flight = 0
    /\ fn_args = None
    /\ fn_result = None
    /\ sensor_rx = <<>>
    /\ trace = [source |-> <<>>, taken |-> <<>>, made |-> <<>>, received |-> <<>>,
                calls |-> <<>>]
    /\ call = None

\* TriggerManager::load_defaults (the manager of main is
\* TriggerManager::default())
load_defaults ==
    <<Trigger_new("high_emf_alert",
                  CondAll(<<CondEventType("EmfAnomaly"), CondConfidenceAbove(800)>>),
                  ActMultiple(<<ActLog("warn", "High EMF anomaly detected! {confidence}"),
                                ActPlaySound("/usr/share/glowbarn/sounds/alert.wav")>>)),
      with_cooldown(Trigger_new("cold_spot_alert",
                                CondAll(<<CondEventType("TemperatureAnomaly"),
                                          CondSensorAnomaly(TempName, 3000)>>),
                                ActNotify("Cold Spot Detected")), 30000),
      Trigger_new("multi_sensor_alert",
                  CondAll(<<CondEventType("MultiSensorEvent"), CondConfidenceAbove(700)>>),
                  ActMultiple(<<ActLog("warn", "Multi-sensor event! ID: {id}"),
                                ActMarkTimestamp("multi_sensor")>>)),
      with_cooldown(Trigger_new("activity_burst", CondEventBurst(5, 60000),
                                ActMultiple(<<ActNotify("Activity Burst"),
                                              ActStartRecording("burst_recording")>>)),
                    120000)>>

\* The sensors the hardware manager of the model polls
PolledSensors == {EmfName}

\* The state main has built when it spawns the tasks: with auto_record the
\* session is started first (a failure ends main before any task runs).
InitMain ==
    /\ FusionInit
    /\ triggers = load_defaults
    /\ event_history = <<>>
    /\ tm_ret = None
    /\ n_events = 0
    /\ \E auto_record \in BOOLEAN :
        LET r == start_session(EventRecorder_new, <<>>, "investigation", "barn", 0,
                               "none", TRUE)
        IN  /\ recorder = IF auto_record THEN r.rec ELSE EventRecorder_new
            /\ fs = IF auto_record THEN r.fs ELSE <<>>
    /\ rec_ret = None
    /\ acked = <<>>
    /\ recorded = <<>>
    /\ n_calls = 0
    /\ TasksInit
    /\ now = 0

\* sensor_task: rx.recv() yields a reading and process_reading runs up to
\* its send.
SensorTask(reading) ==
    /\ main_pc # "exited"
    /\ ProcessReadingStep(reading)
    /\ UNCHANGED <<trigger_vars, recorder_vars, main_vars>>
    /\ UNCHANGED side_vars

\* sensor_task: the send of process_reading completes and the call returns.
SensorTaskSend ==
    /\ main_pc # "exited"
    /\ CompleteSendStep
    /\ UNCHANGED <<trigger_vars, recorder_vars, main_vars>>
    /\ UNCHANGED side_vars

\* event_task: rx.recv() yields an event; the handler logs it.
EventTaskRecv ==
    /\ main_pc # "exited"
    /\ e_pc = "recv"
    /\ channel # <<>>
    /\ e_event' = Some(Head(channel))
    /\ channel' = Tail(channel)
    /\ e_pc' = "record"
    /\ UNCHANGED <<config, baselines, recent_readings, rx_open, pending, ret, n_readings,
                   n_resets>>
    /\ UNCHANGED <<trigger_vars, recorder_vars, main_pc, in_flight, now>>
    /\ UNCHANGED side_vars

\* An event task that gives up an event record_event failed on and waits for
\* the next.
after_record_skip(result) == IF result = "Err" THEN "recv" ELSE "triggers"

\* event_task, lines 108-110: where the task goes on after record_event; an
\* error is logged and nothing else.
after_record(result) == "triggers"

\* event_task: record_event under the write lock of the recorder; an error
\* is logged and the task goes on.
EventTaskRecord(io) ==
    /\ main_pc # "exited"
    /\ e_pc = "record"
    /\ LET r == record_event(recorder, fs, e_event[1], io)
           dir == IF recorder.session = None THEN -1 ELSE recorder.session[1].id
           counted == r.result = "Ok" /\ recorder.session # None
       IN  /\ recorder' = r.rec
           /\ fs' = r.fs
           /\ rec_ret' = Some([op |-> "record_event", result |-> r.result,
                               before |-> recorder, fs_before |-> fs, session |-> None])
           /\ acked' = IF counted
                         THEN [d \in DOMAIN acked \cup {dir} |->
                                  IF d = dir THEN Append(Acked(d), EventLine(e_event[1]))
                                  ELSE acked[d]]
                         ELSE acked
           /\ recorded' = IF counted THEN Append(recorded, EventLine(e_event[1]))
                          ELSE recorded
    /\ in_flight' = IF main_pc # "running" /\ in_flight > 0 THEN in_flight - 1
                    ELSE in_flight
    /\ e_pc' = after_record(record_event(recorder, fs, e_event[1], io).result)
    /\ trace' = [trace EXCEPT
                    !.calls = Append(@, [op |-> "record_event", event |-> e_event[1]])]
    /\ UNCHANGED <<fusion_vars, trigger_vars, n_calls, main_pc, e_event, now>>
    /\ UNCHANGED <<fn_vars, call_vars, sensor_rx>>

\* event_task: process_event under the write lock of the trigger manager.
EventTaskTriggers ==
    /\ main_pc # "exited"
    /\ e_pc = "triggers"
    /\ LET r == process_event(triggers, event_history, e_event[1])
       IN  /\ triggers' = r.triggers
           /\ event_history' = r.event_history
           /\ tm_ret' = Some([event |-> e_event[1], before |-> triggers,
                              history |-> event_history, result |-> r.result,
                              triggered |-> r.triggered, effects |-> r.effects])
    /\ e_pc' = "recv"
    /\ e_event' = None
    /\ trace' = [trace EXCEPT
                    !.calls = Append(@, [op |-> "process_event", event |-> e_event[1]])]
    /\ UNCHANGED <<fusion_vars, recorder_vars, n_events, main_pc, in_flight, now>>
    /\ UNCHANGED <<fn_vars, call_vars, sensor_rx>>

\* main: ctrl_c completes the select.
CtrlC ==
    /\ main_pc = "running"
    /\ main_pc' = "cleanup"
    /\ in_flight' = Len(channel) + (IF e_pc = "record" THEN 1 ELSE 0)
    /\ UNCHANGED <<fusion_vars, trigger_vars, recorder_vars, e_pc, e_event, now>>
    /\ UNCHANGED side_vars

\* main: end_session under the write lock of the recorder; an error leaves
\* main by `?`.
MainEndSession(meta_ok, events_ok, sensors_ok) ==
    /\ main_pc = "cleanup"
    /\ LET r == end_session(recorder, fs, now, meta_ok, events_ok, sensors_ok)
       IN  /\ recorder' = r.rec
           /\ fs' = r.fs
           /\ rec_ret' = Some([op |-> "end_session", result |-> r.result,
                               before |-> recorder, fs_before |-> fs,
                               session |-> r.session])
    /\ main_pc' = "ended"
    /\ UNCHANGED <<fusion_vars, trigger_vars, acked, recorded, n_calls, e_pc, e_event,
                   in_flight, now>>
    /\ UNCHANGED side_vars

\* main returns: the runtime is dropped and the tasks are cancelled.
MainReturn ==
    /\ main_pc = "ended"
    /\ main_pc' = "exited"
    /\ UNCHANGED <<fusion_vars, trigger_vars, recorder_vars, e_pc, e_event, in_flight, now>>
    /\ UNCHANGED side_vars

-----------------------------------------------------------------------------
(* Functions of the program taken on their own: a caller hands each its     *)
(* arguments and keeps what it returned.                                     *)

program_vars ==
    <<fusion_vars, trigger_vars, recorder_vars, main_vars, source_vars, call_vars, now>>

\* The sequences over S of length at most n.
SeqUpTo(S, n) == UNION {[1..k -> S] : k \in 0..n}

\* Sensor names for each substring get_sensor_type looks for, in either case,
\* and names it does not know.
ClassifyNames ==
    { <<"E", "M", "F">>, <<"m", "a", "g">>, <<"h", "m", "c">>,
      <<"T", "e", "m", "p">>, <<"m", "l", "x">>, <<"b", "m", "e">>,
      <<"a", "u", "d", "i", "o">>, <<"m", "i", "c">>,
      <<"P", "I", "R">>, <<"m", "o", "t", "i", "o", "n">>,
      <<"c", "a", "m", "e", "r", "a">>, <<"v", "i", "d", "e", "o">>,
      <<"s", "d", "r">>, <<"r", "t", "l">>,
      <<"i", "n", "f", "r", "a">>,
      <<"l", "a", "s", "e", "r">>, <<"g", "e", "i", "g", "e", "r">> }

\* The entries find_correlated_anomalies can hand over: a time and a reading
\* of another sensor.
ClassifyCorrelated ==
    { <<0, [sensor_name |-> <<"e", "m", "f", "2">>, value |-> 10]>>,
      <<0, [sensor_name |-> <<"t", "e", "m", "p", "2">>, value |-> 10]>> }

ClassifyEvent(primary, correlated) ==
    /\ fn_args' = [op |-> "classify_event", primary |-> primary,
                   correlated |-> correlated]
    /\ fn_result' = Some(classify_event(primary, correlated))
    /\ UNCHANGED program_vars

-----------------------------------------------------------------------------
(* The burst scenario: one trigger on EventBurst{count = 3, window = 60 s}  *)
(* as Trigger::new builds it; a caller hands the manager events of           *)
(* timestamps 0, 20, 40 and 80 s in any order.                               *)

BurstTriggers ==
    <<Trigger_new("burst", CondEventBurst(3, 60000), ActNotify("burst"))>>

BurstTimes == {0, 20000, 40000, 80000}

InitBurst ==
    /\ FusionInit /\ RecorderInit /\ TasksInit /\ now = 0
    /\ triggers = BurstTriggers
    /\ event_history = <<>>
    /\ tm_ret = None
    /\ n_events = 0

ProcessBurstEvent(event) ==
    /\ n_events < MaxBurstEvents
    /\ LET r == process_event(triggers, event_history, event)
       IN  /\ triggers' = r.triggers
           /\ event_history' = r.event_history
           /\ tm_ret' = Some([event |-> event, before |-> triggers,
                              history |-> event_history, result |-> r.result,
                              triggered |-> r.triggered, effects |-> r.effects])
    /\ n_events' = n_events + 1
    /\ UNCHANGED <<fusion_vars, recorder_vars, main_vars, now>>
    /\ UNCHANGED side_vars

-----------------------------------------------------------------------------
(* A trigger manager that has run for a while: it has processed              *)
(* history_limit - 1 events, one a millisecond, and is handed more.          *)

\* The event of the i-th millisecond.
EarlierEvent(i) == CallerEvent(i, 300)

\* The manager m after process_event has handled EarlierEvent(lo) to
\* EarlierEvent(hi), one after the other.
RECURSIVE Processed(_, _, _)
Processed(m, lo, hi) ==
    IF lo > hi THEN m
    ELSE IF lo = hi
        THEN LET r == process_event(m.triggers, m.event_history, EarlierEvent(lo))
             IN  [triggers |-> r.triggers, event_history |-> r.event_history]
    ELSE LET mid == (lo + hi) \div 2
             first == Processed(m, lo, mid)
         IN  \* the test has first evaluated before the rest is begun
             IF Len(first.event_history) >= 0 THEN Processed(first, mid + 1, hi) ELSE m

LateTimes == {1000, 1005}

InitHistory ==
    /\ FusionInit /\ RecorderInit /\ TasksInit /\ now = 0
    /\ LET m == Processed([triggers |-> ModelTriggers, event_history |-> <<>>],
                           1, history_limit - 1)
       IN  /\ triggers = m.triggers
           /\ event_history = m.event_history
    /\ tm_ret = None
    /\ n_events = 0

ProcessLateEvent(event) ==
    /\ n_events < MaxLateEvents
    /\ LET r == process_event(triggers, event_history, event)
       IN  /\ triggers' = r.triggers
           /\ event_history' = r.event_history
           /\ tm_ret' = Some([event |-> event, before |-> triggers,
                              history |-> event_history, result |-> r.result,
                              triggered |-> r.triggered, effects |-> r.effects])
    /\ n_events' = n_events + 1
    /\ UNCHANGED <<fusion_vars, recorder_vars, main_vars, now>>
    /\ UNCHANGED side_vars

-----------------------------------------------------------------------------
(* The pipeline from the hardware manager to the event task: the polling   *)
(* task sends readings, the sensor task hands each to process_reading, the  *)
(* event task takes the events.                                              *)

\* A receiver that yields the newest message of the channel.
recv_newest(queue) ==
    [message |-> queue[Len(queue)], rest |-> SubSeq(queue, 1, Len(queue) - 1)]

\* mpsc::Receiver::recv on a channel that holds messages: the oldest one,
\* and the channel without it.
recv(queue) == [message |-> Head(queue), rest |-> Tail(queue)]

\* The polling task of start_polling: tx.send(reading).await, which waits
\* while the channel is full.
PollingTask(reading) ==
    /\ Len(trace.source) < MaxReadings
    /\ Len(sensor_rx) < SensorCapacity
    /\ sensor_rx' = Append(sensor_rx, reading)
    /\ trace' = [trace EXCEPT !.source = Append(@, reading)]
    /\ UNCHANGED <<fusion_vars, trigger_vars, recorder_vars, main_vars, fn_vars, call_vars, now>>

\* sensor_task: rx.recv() yields the next reading and process_reading runs
\* up to its send.
SensorTaskRecv ==
    /\ sensor_rx # <<>>
    /\ ProcessReadingStep(recv(sensor_rx).message)
    /\ sensor_rx' = recv(sensor_rx).rest
    /\ trace' = [trace EXCEPT
                    !.taken = Append(@, recv(sensor_rx).message),
                    !.made = IF pending' = None THEN @ ELSE Append(@, pending'[1].event)]
    /\ UNCHANGED <<trigger_vars, recorder_vars, main_vars, fn_vars, call_vars>>

\* sensor_task: the send of process_reading completes and the call returns.
SensorTaskSent ==
    /\ CompleteSendStep
    /\ UNCHANGED <<trigger_vars, recorder_vars, main_vars, side_vars>>

\* An event task that hands what it receives to the trigger manager at once.
EventTaskTake_unrecorded ==
    /\ e_pc = "recv"
    /\ channel # <<>>
    /\ e_event' = Some(recv(channel).message)
    /\ channel' = recv(channel).rest
    /\ e_pc' = "triggers"
    /\ trace' = [trace EXCEPT !.received = Append(@, recv(channel).message)]
    /\ UNCHANGED <<config, baselines, recent_readings, rx_open, pending, ret, n_readings,
                   n_resets>>
    /\ UNCHANGED <<trigger_vars, recorder_vars, main_pc, in_flight, now, fn_vars, call_vars, sensor_rx>>

\* event_task: rx.recv() yields the next event; the handler logs it.
EventTaskTake ==
    /\ e_pc = "recv"
    /\ channel # <<>>
    /\ e_event' = Some(recv(channel).message)
    /\ channel' = recv(channel).rest
    /\ e_pc' = "record"
    /\ trace' = [trace EXCEPT !.received = Append(@, recv(channel).message)]
    /\ UNCHANGED <<config, baselines, recent_readings, rx_open, pending, ret, n_readings,
                   n_resets>>
    /\ UNCHANGED <<trigger_vars, recorder_vars, main_pc, in_flight, now, fn_vars, call_vars, sensor_rx>>

-----------------------------------------------------------------------------
(* One SensorBaseline on its own: a caller feeds it values through update.  *)
(* fn_args is the sequence of the values fed, fn_result the baseline.        *)

UpdateValues == {0, 3, 10}

Update(value) ==
    /\ Len(fn_args) < MaxUpdates
    /\ fn_args' = Append(fn_args, value)
    /\ fn_result' = Some(update(IF fn_result = None THEN SensorBaseline_new
                                ELSE fn_result[1], value))
    /\ UNCHANGED program_vars

-----------------------------------------------------------------------------
(* Reading a session back *)

\* serde_json::from_str::<ParanormalEvent> of a line: the event of a line
\* record_event wrote, nothing for any other text.
from_str(line) ==
    IF Len(line) = 2 /\ line[1] = "event" THEN Some(line[2]) ELSE None

\* load_events, lines 251-257: the events of the lines that parse, in the
\* order of the lines.
RECURSIVE ParsedEvents(_)
ParsedEvents(lines) ==
    IF lines = <<>> THEN <<>>
    ELSE from_str(Head(lines)) \o ParsedEvents(Tail(lines))

\* EventRecorder::load_events
load_events(files, session_id) ==
    IF session_id \notin DOMAIN files \/ files[session_id].events = None
        THEN [result |-> "Err", events |-> <<>>]
        ELSE [result |-> "Ok", events |-> ParsedEvents(files[session_id].events[1])]

\* The ids a caller asks for: a session of each second of the clock.
SessionIds == 0..MaxSeconds

LoadEvents(session_id) ==
    /\ LET r == load_events(fs, session_id)
       IN  rec_ret' = Some([op |-> "load_events", result |-> r.result,
                            before |-> recorder, fs_before |-> fs, session |-> None,
                            session_id |-> session_id, events |-> r.events])
    /\ UNCHANGED <<recorder, fs, acked, recorded, n_calls>>
    /\ UNCHANGED <<fusion_vars, trigger_vars, main_vars, now>>
    /\ UNCHANGED side_vars

-----------------------------------------------------------------------------
(* The pipeline when the event task has ended: its Receiver is dropped, and *)
(* the messages the channel held with it.                                    *)

DropReceiver ==
    /\ rx_open
    /\ rx_open' = FALSE
    /\ channel' = <<>>
    /\ UNCHANGED <<config, baselines, recent_readings, pending, ret, n_readings, n_resets,
                   now>>
    /\ UNCHANGED <<trigger_vars, recorder_vars, main_vars>>
    /\ UNCHANGED side_vars

----------------------------------------------------------------------------
(* The fusion engine under the configurations the file of settings can     *)
(* give it: correlation_window_ms is any u64 (config.rs, line 52; main     *)
(* copies it, line 54), zero included.                                     *)

WindowConfigs ==
    Configs \cup {[c EXCEPT !.correlation_window_ms = 0] : c \in Configs}

\* FusionEngine::new with a configuration of WindowConfigs
InitWindow ==
    /\ config \in WindowConfigs
    /\ baselines = <<>>
    /\ recent_readings = <<>>
    /\ channel = <<>>
    /\ rx_open = TRUE
    /\ pending = None
    /\ ret = None
    /\ n_readings = 0
    /\ n_resets = 0
    /\ TriggerInit /\ RecorderInit /\ TasksInit /\ now = 0


----------------------------------------------------------------------------
(* Readings with the timestamp their source gives them.                    *)

\* start_polling, lines 297-303: the reading the polling task builds, stamped
\* with the wall clock of that moment, and its send.
PollStamped(sensor_name, value) ==
    LET reading == [sensor_name |-> sensor_name, value |-> value, timestamp |-> now]
    IN  /\ Len(trace.source) < MaxReadings
        /\ Len(sensor_rx) < SensorCapacity
        /\ sensor_rx' = Append(sensor_rx, reading)
        /\ trace' = [trace EXCEPT !.source = Append(@, reading)]
        /\ UNCHANGED <<fusion_vars, trigger_vars, recorder_vars, main_vars, fn_vars, call_vars, now>>


----------------------------------------------------------------------------
(* process_reading taken section by section, with the guards of its two    *)
(* std::sync::RwLock fields: between two sections another caller of the    *)
(* engine (its methods take &self) can run.  One call at a time works      *)
(* through the sections; the call suspended in the send is `pending`.      *)

\* The places of process_reading between two sections: after the block that
\* stores the reading, after the block that updates the baseline, and the
\* await of the send.
StorePoint == 138
ScorePoint == 160
SendPoint == 217

\* The guards process_reading takes and the lines each lives over: the block
\* or the statement it is taken in (lines 176 are find_correlated_anomalies,
\* whose two guards are dropped at its return).
GuardScopes ==
    {[lock |-> "recent_readings", mode |-> "write", from |-> 131, to |-> 137],
     [lock |-> "baselines", mode |-> "write", from |-> 141, to |-> 148],
     [lock |-> "baselines", mode |-> "read", from |-> 155, to |-> 155],
     [lock |-> "baselines", mode |-> "read", from |-> 163, to |-> 166],
     [lock |-> "baselines", mode |-> "read", from |-> 176, to |-> 176],
     [lock |-> "recent_readings", mode |-> "read", from |-> 176, to |-> 176],
     [lock |-> "baselines", mode |-> "read", from |-> 203, to |-> 213]}

\* Guards that live until process_reading returns, as if they were bound at
\* the level of the function.
GuardsAt_until_return(line) ==
    {[lock |-> g.lock, mode |-> g.mode] :
        g \in {h \in {[lock |-> "recent_readings", mode |-> "write", from |-> 131],
                      [lock |-> "baselines", mode |-> "write", from |-> 141],
                      [lock |-> "baselines", mode |-> "read", from |-> 163],
                      [lock |-> "baselines", mode |-> "read", from |-> 203]} :
                 h.from <= line}}

\* The guards a call holds when it stands at a line.
GuardsAt(line) ==
    {[lock |-> g.lock, mode |-> g.mode] :
        g \in {h \in GuardScopes : h.from <= line /\ line <= h.to}}

\* The guards of the call suspended in the send, and those held on the
\* engine by that call and the call under way.
SuspendedGuards == IF pending = None THEN {} ELSE pending[1].guards
HeldGuards == (IF call = None THEN {} ELSE call[1].guards) \cup SuspendedGuards

\* RwLock::read / RwLock::write return at once: no guard that another caller
\* holds is in the way.
CanLock(held, lock, mode) ==
    \A g \in held : g.lock = lock => (mode = "read" /\ g.mode = "read")

\* process_reading, lines 126-137
CallStore(reading) ==
    /\ call = None
    /\ n_readings < MaxReadings
    /\ SampleCount(baselines, reading.sensor_name) < MaxSamples
    /\ CanLock(SuspendedGuards, "recent_readings", "write")
    /\ recent_readings' = StoreReading(config, recent_readings, now, reading)
    /\ call' = Some([at |-> StorePoint, reading |-> reading, t |-> now,
                     validated |-> None, guards |-> GuardsAt(StorePoint)])
    /\ n_readings' = n_readings + 1
    /\ UNCHANGED <<config, baselines, channel, rx_open, pending, ret, n_resets, now>>
    /\ UNCHANGED <<trigger_vars, recorder_vars, main_vars, fn_vars, source_vars>>

\* process_reading, lines 139-159: the baseline is updated and its validity
\* tested under one write guard; a call in the warm-up returns.
CallUpdate ==
    /\ call # None
    /\ call[1].at = StorePoint
    /\ CanLock(SuspendedGuards, "baselines", "write")
    /\ LET reading == call[1].reading
           bl == UpdateBaseline(baselines, reading)
       IN  /\ baselines' = bl
           /\ IF IsBaselineValid(config, bl[reading.sensor_name])
                THEN /\ call' = Some([call[1] EXCEPT
                                        !.at = ScorePoint,
                                        !.validated = Some(bl[reading.sensor_name]),
                                        !.guards = GuardsAt(ScorePoint)])
                     /\ ret' = ret
                ELSE /\ call' = None
                     /\ ret' = Some([sensor_name |-> reading.sensor_name,
                                     value |-> reading.value,
                                     sample_count |-> bl[reading.sensor_name].sample_count,
                                     event |-> None, send |-> "none"])
    /\ UNCHANGED <<config, recent_readings, channel, rx_open, pending, n_readings,
                   n_resets, now>>
    /\ UNCHANGED <<trigger_vars, recorder_vars, main_vars, fn_vars, source_vars>>

\* process_reading, lines 161-216: the reading is scored against the
\* baseline as it is now, read under guards of their own, and the call
\* either returns or reaches the send.  (The model lets one call at a time
\* be suspended in the send.)
CallScore ==
    /\ call # None
    /\ call[1].at = ScorePoint
    /\ pending = None
    /\ CanLock(SuspendedGuards, "baselines", "read")
    /\ CanLock(SuspendedGuards, "recent_readings", "read")
    /\ LET reading == call[1].reading
           scored == baselines[reading.sensor_name]
           event == DetectEvent(config, baselines, recent_readings, reading, call[1].t)
       IN  IF event = None
             THEN /\ pending' = None
                  /\ ret' = Some([sensor_name |-> reading.sensor_name,
                                  value |-> reading.value,
                                  sample_count |-> scored.sample_count,
                                  event |-> None, send |-> "none"])
             ELSE /\ pending' = Some([reading |-> reading,
                                      sample_count |-> scored.sample_count,
                                      event |-> event[1],
                                      validated |-> call[1].validated[1],
                                      scored |-> scored,
                                      guards |-> GuardsAt(SendPoint)])
                  /\ ret' = ret
    /\ call' = None
    /\ UNCHANGED <<config, baselines, recent_readings, channel, rx_open, n_readings,
                   n_resets, now>>
    /\ UNCHANGED <<trigger_vars, recorder_vars, main_vars, fn_vars, source_vars>>

\* reset_baseline called by another task while a process_reading call is
\* between two sections or suspended: it takes the write lock of baselines.
ConcurrentReset(sensor_name) ==
    /\ SampleCount(baselines, sensor_name) > 0
    /\ n_resets < MaxResets
    /\ CanLock(HeldGuards, "baselines", "write")
    /\ baselines' = reset_baseline(baselines, sensor_name)
    /\ n_resets' = n_resets + 1
    /\ UNCHANGED <<config, recent_readings, channel, rx_open, pending, ret, n_readings, now>>
    /\ UNCHANGED <<trigger_vars, recorder_vars, main_vars>>
    /\ UNCHANGED side_vars


----------------------------------------------------------------------------
(* Specifications *)

Init == FusionInit /\ TriggerInit /\ RecorderInit /\ TasksInit /\ now = 0

Next ==
    \/ \E s \in SensorNames, v \in Values :
            ProcessReading([sensor_name |-> s, value |-> v])
    \/ CompleteSend
    \/ Recv
    \/ Tick

\* The fusion engine on its own: readings over time and a consumer.
Spec == Init /\ [][Next]_vars

NextResets ==
    \/ \E s \in SensorNames, v \in Values :
            ProcessReading([sensor_name |-> s, value |-> v])
    \/ CompleteSend
    \/ Recv
    \/ \E s \in SensorNames : ResetBaseline(s)
    \/ ResetAllBaselines

\* The fusion engine with its baselines reset between readings, at one
\* instant of the clock.
SpecResets == Init /\ [][NextResets]_vars

NextTriggers ==
    \/ \E t \in TimeStamps, c \in Confidences : ProcessEvent(CallerEvent(t, c))
    \/ \E name \in {"confident", "burst"}, enabled \in BOOLEAN :
            SetTriggerEnabled(name, enabled)

\* The trigger manager on its own.
SpecTriggers == Init /\ [][NextTriggers]_vars

NextRecorder ==
    \/ \E fail \in StartFailures, drop_ok \in BOOLEAN : StartSession(fail, drop_ok)
    \/ \E meta_ok, events_ok, sensors_ok \in BOOLEAN :
            EndSession(meta_ok, events_ok, sensors_ok)
    \/ \E event \in RecordedEvents, io \in RecordOutcomes : RecordEvent(event, io)
    \/ \E io \in SensorOutcomes : RecordSensor(io)
    \/ \E events_ok, sensors_ok \in BOOLEAN : Flush(events_ok, sensors_ok)
    \/ Crash
    \/ TickSecond

\* The recorder on its own.
SpecRecorder == Init /\ [][NextRecorder]_vars

NextMain ==
    \/ \E s \in PolledSensors, v \in Values :
            SensorTask([sensor_name |-> s, value |-> v])
    \/ SensorTaskSend
    \/ EventTaskRecv
    \/ \E io \in RecordOutcomes : EventTaskRecord(io)
    \/ EventTaskTriggers
    \/ CtrlC
    \/ \E meta_ok, events_ok, sensors_ok \in BOOLEAN :
            MainEndSession(meta_ok, events_ok, sensors_ok)
    \/ MainReturn
    \/ Tick

\* The application: main and its two tasks.
SpecMain == InitMain /\ [][NextMain]_vars

\* classify_event on its own.
NextClassify ==
    \E s \in ClassifyNames, v \in Values,
       correlated \in SeqUpTo(ClassifyCorrelated, MaxCorrelated) :
        ClassifyEvent([value |-> v, sensor_name |-> s], correlated)

SpecClassify == Init /\ [][NextClassify]_vars

\* The trigger manager in the burst scenario.
NextBurst == \E t \in BurstTimes : ProcessBurstEvent(CallerEvent(t, 800))

SpecBurst == InitBurst /\ [][NextBurst]_vars

\* The trigger manager at the limit of its history.
NextHistory ==
    \E t \in LateTimes, c \in Confidences : ProcessLateEvent(CallerEvent(t, c))

SpecHistory == InitHistory /\ [][NextHistory]_vars

\* The pipeline: the polling task, the sensor task and the event task.
NextPipeline ==
    \/ \E s \in PolledSensors, v \in Values :
            PollingTask([sensor_name |-> s, value |-> v])
    \/ SensorTaskRecv
    \/ SensorTaskSent
    \/ EventTaskTake
    \/ \E io \in RecordOutcomes : EventTaskRecord(io)
    \/ EventTaskTriggers
    \/ Tick

SpecPipeline == InitMain /\ [][NextPipeline]_vars

\* SensorBaseline::update on its own.
NextUpdate == \E value \in UpdateValues : Update(value)

SpecUpdate == Init /\ [][NextUpdate]_vars

\* The recorder and its reader, with I/O that does not fail.
NextLoad ==
    \/ StartSession("none", TRUE)
    \/ EndSession(TRUE, TRUE, TRUE)
    \/ \E event \in RecordedEvents : RecordEvent(event, "ok")
    \/ \E session_id \in SessionIds : LoadEvents(session_id)
    \/ TickSecond

SpecLoad == Init /\ [][NextLoad]_vars

\* The polling task and the sensor task, with an event channel whose
\* receiver may go away.
NextClosed ==
    \/ \E s \in PolledSensors, v \in Values :
            PollingTask([sensor_name |-> s, value |-> v])
    \/ SensorTaskRecv
    \/ SensorTaskSent
    \/ DropReceiver
    \/ Tick

SpecClosed == Init /\ [][NextClosed]_vars

\* The fusion engine with either correlation window, fed by the one sensor
\* main polls.
NextWindow ==
    \/ \E s \in PolledSensors, v \in Values :
            ProcessReading([sensor_name |-> s, value |-> v])
    \/ CompleteSend
    \/ Recv
    \/ Tick

SpecWindow == InitWindow /\ [][NextWindow]_vars


\* The polling task stamping its readings, the sensor task and a consumer of
\* events, over time.
NextStamped ==
    \/ \E s \in PolledSensors, v \in Values : PollStamped(s, v)
    \/ SensorTaskRecv
    \/ SensorTaskSent
    \/ Recv
    \/ Tick

SpecStamped == Init /\ [][NextStamped]_vars


\* process_reading section by section, interleaved with reset_baseline and
\* with the consumer of events.
NextInterleaved ==
    \/ \E s \in PolledSensors, v \in Values : CallStore([sensor_name |-> s, value |-> v])
    \/ CallUpdate
    \/ CallScore
    \/ CompleteSend
    \/ Recv
    \/ \E s \in PolledSensors : ConcurrentReset(s)

SpecInterleaved == Init /\ [][NextInterleaved]_vars

NextFrame ==
    \/ \E s \in SensorNames, v \in Values :
            ProcessReading([sensor_name |-> s, value |-> v])
    \/ CompleteSend
    \/ Recv
    \/ \E s \in SensorNames : ResetBaselineCall(s)

\* The fusion engine with reset_baseline called for any sensor name, at one
\* instant of the clock.
SpecFrame == Init /\ [][NextFrame]_vars


----------------------------------------------------------------------------
(* Properties of the fusion engine (Spec, SpecResets) *)

\* The events process_reading has built and not yet handed over, sent, or
\* returned from its last call.
EmittedEvents ==
    {channel[i] : i \in 1..Len(channel)}
        \cup (IF pending = None THEN {} ELSE {pending[1].event})
        \cup (IF ret = None \/ ret[1].event = None THEN {} ELSE {ret[1].event[1]})

\* C1.  Warm-up suppression: a process_reading call that leaves the baseline
\* of its sensor with sample_count < min_baseline_samples returns None and
\* sends nothing, and no call with such a baseline reaches the send.  Checked
\* under SpecResets: a reset puts a sensor back into warm-up.
C1_WarmUpSuppression ==
    /\ ret # None /\ ret[1].sample_count < config.min_baseline_samples
            => ret[1].event = None /\ ret[1].send = "none"
    /\ pending # None => pending[1].sample_count >= config.min_baseline_samples

\* A call has just returned during the warm-up that follows a reset (its
\* sensor has supplied more readings than the baseline counts) although its
\* reading lies beyond the anomaly threshold of the baseline it left.
C1_Witness ==
    /\ ret # None
    /\ Cardinality({i \in 1..Len(recent_readings) :
                        recent_readings[i].reading.sensor_name = ret[1].sensor_name})
            > ret[1].sample_count
    /\ pending = None
    /\ ret[1].sample_count < config.min_baseline_samples
    /\ ret[1].sensor_name \in DOMAIN baselines
    /\ baselines[ret[1].sensor_name].sample_count = ret[1].sample_count
    /\ AbsZAbove(baselines[ret[1].sensor_name], ret[1].value, config.anomaly_threshold)
    /\ ret[1].event = None

\* C2.  Drop-newest-on-full: process_reading is never left waiting in its
\* send with the channel at capacity and the receiver alive; it would have
\* dropped the event and returned.
C2_NeverWaitsOnFullChannel ==
    ~(pending # None /\ rx_open /\ Len(channel) >= ChannelCapacity)

----------------------------------------------------------------------------
(* Properties of the trigger manager (SpecTriggers) *)

Fired(name) == \E i \in 1..Len(tm_ret[1].triggered) : tm_ret[1].triggered[i] = name

\* C3.  Cooldown: when process_event handles an event of timestamp t2 that
\* satisfies the condition of an enabled trigger whose last firing was on an
\* event of timestamp t1 < t2, the trigger fires iff t2 - t1 >= cooldown.
C3_Cooldown ==
    tm_ret # None =>
        \A i \in 1..Len(tm_ret[1].before) :
            LET trigger == tm_ret[1].before[i]
                event == tm_ret[1].event
            IN  /\ trigger.enabled
                /\ trigger.last_triggered # None
                /\ trigger.last_triggered[1] < event.timestamp
                /\ check(trigger.condition, event, tm_ret[1].history)
                => (Fired(trigger.name)
                        <=> event.timestamp - trigger.last_triggered[1] >= trigger.cooldown)

\* Events at 0, 5 and 12 of confidence 0.8 have been processed: the trigger
\* of cooldown 10 fired, skipped, and has just fired again.
C3_Witness ==
    /\ tm_ret # None
    /\ Len(event_history) = 3
    /\ \A i \in 1..3 : event_history[i].confidence = 800
    /\ <<event_history[1].timestamp, event_history[2].timestamp,
         event_history[3].timestamp>> = <<0, 5, 12>>
    /\ tm_ret[1].before[1].enabled
    /\ tm_ret[1].before[1].last_triggered = Some(0)
    /\ Fired("confident")
    /\ triggers[1].last_triggered = Some(12)

\* C4.  Cooldown over any order: a firing sets last_triggered to the
\* timestamp of the event, and a trigger does not fire on an event whose
\* timestamp less last_triggered is below the cooldown, an event earlier
\* than last_triggered included.
C4_CooldownAnyOrder ==
    tm_ret # None =>
        \A i \in 1..Len(tm_ret[1].before) :
            LET trigger == tm_ret[1].before[i]
                event == tm_ret[1].event
            IN  /\ Fired(trigger.name) => triggers[i].last_triggered = Some(event.timestamp)
                /\ trigger.last_triggered # None
                    /\ event.timestamp - trigger.last_triggered[1] < trigger.cooldown
                    => ~Fired(trigger.name)

-----------------------------------------------------------------------------
(* Properties of the burst condition (SpecBurst) *)

\* The timestamps of a sequence of events.
TimesOf(events) == [i \in 1..Len(events) |-> events[i].timestamp]

\* C12.  EventBurst{count, window} is satisfied on an event e exactly when
\* the history events of timestamp in (e.timestamp - window, e.timestamp],
\* plus one for e, number at least count; a history event later than e is
\* not counted.
C12_BurstInterval ==
    tm_ret # None =>
        \A i \in 1..Len(tm_ret[1].before) :
            LET c == tm_ret[1].before[i].condition
                event == tm_ret[1].event
                history == tm_ret[1].history
                in_window == {k \in 1..Len(history) :
                                /\ history[k].timestamp > event.timestamp - c.window
                                /\ history[k].timestamp <= event.timestamp}
            IN  c.kind = "EventBurst" =>
                    (check(c, event, history) <=> Cardinality(in_window) + 1 >= c.count)

\* C13 as the specification states it.  In scenario S5 the trigger does not
\* fire at 0 s or 20 s, fires at 40 s, and fires again at 80 s, the history
\* events at 20 s and 40 s both counting.
C13_ScenarioAsStated ==
    tm_ret # None =>
        LET seen == TimesOf(tm_ret[1].history)
            t == tm_ret[1].event.timestamp
        IN  /\ seen = <<>> /\ t = 0 => ~Fired("burst")
            /\ seen = <<0>> /\ t = 20000 => ~Fired("burst")
            /\ seen = <<0, 20000>> /\ t = 40000 => Fired("burst")
            /\ seen = <<0, 20000, 40000>> /\ t = 80000 => Fired("burst")

\* C13.  In scenario S5 the trigger does not fire at 0 s or 20 s, fires at
\* 40 s, and does not fire at 80 s: the history event at 20 s lies exactly
\* one window back and is not counted, so that the count is 2.
C13_ScenarioS5 ==
    tm_ret # None =>
        LET seen == TimesOf(tm_ret[1].history)
            t == tm_ret[1].event.timestamp
        IN  /\ seen = <<>> /\ t = 0 => ~Fired("burst")
            /\ seen = <<0>> /\ t = 20000 => ~Fired("burst")
            /\ seen = <<0, 20000>> /\ t = 40000 => Fired("burst")
            /\ seen = <<0, 20000, 40000>> /\ t = 80000 => ~Fired("burst")

\* The events at 0, 20, 40 and 80 s have been processed in that order; the
\* last firing is the one at 40 s, 40 s before the last event.
C13_Witness ==
    /\ tm_ret # None
    /\ TimesOf(event_history) = <<0, 20000, 40000, 80000>>
    /\ tm_ret[1].before[1].last_triggered = Some(40000)
    /\ tm_ret[1].before[1].enabled
    /\ ~InCooldown(tm_ret[1].before[1], tm_ret[1].event)
    /\ ~Fired("burst")

-----------------------------------------------------------------------------
(* Properties of the event history (SpecHistory) *)

\* C14.  After every process_event the history holds at most history_limit
\* events, and they are the most recently processed ones in the order of
\* their processing: the oldest are evicted first.
C14_BoundedHistory ==
    /\ Len(event_history) <= history_limit
    /\ tm_ret # None =>
        LET processed == Append(tm_ret[1].history, tm_ret[1].event)
            kept == Min2(Len(processed), history_limit)
        IN  event_history = SubSeq(processed, Len(processed) - kept + 1, Len(processed))

\* process_event was handed an event while the history was full: the oldest
\* event is gone and the new one is last.
C14_Witness ==
    /\ tm_ret # None
    /\ Len(tm_ret[1].history) = history_limit
    /\ Len(event_history) = history_limit
    /\ event_history[1] = tm_ret[1].history[2]
    /\ event_history[history_limit] = tm_ret[1].event

----------------------------------------------------------------------------
(* Properties of the recorder (SpecRecorder) *)

\* The lines of a file of a directory; none when it does not exist.
Lines(dir, file) ==
    IF dir \in DOMAIN fs /\ fs[dir][file] # None THEN fs[dir][file][1] ELSE <<>>

\* Whether the lines of a are found in b, in order.
RECURSIVE IsSubSeq(_, _)
IsSubSeq(a, b) ==
    IF a = <<>> THEN TRUE
    ELSE IF b = <<>> THEN FALSE
    ELSE IF Head(a) = Head(b) THEN IsSubSeq(Tail(a), Tail(b))
    ELSE IsSubSeq(a, Tail(b))

\* C6.  start_session called while a session is active returns an error and
\* leaves the session, its writers and the files as they were.
C6_StartFailsWhenActive ==
    rec_ret # None /\ rec_ret[1].op = "start_session" /\ rec_ret[1].before.session # None
        => /\ rec_ret[1].result = "Err"
           /\ recorder = rec_ret[1].before
           /\ fs = rec_ret[1].fs_before

\* C7.  Count invariant: when end_session returns a session, events.jsonl
\* of that session holds exactly the lines of the record_event calls that
\* returned Ok during it, in order, and the session returned, which is the
\* one written to session.json, counts as many.
C7_CountInvariant ==
    rec_ret # None /\ rec_ret[1].op = "end_session" /\ rec_ret[1].session # None
        => LET session == rec_ret[1].session[1] IN
           /\ Lines(session.id, "events") = recorded
           /\ session.event_count = Len(recorded)
           /\ fs[session.id].session_json = Some(SessionJson(session))

\* C8.  Durability: the line of every event record_event returned Ok for
\* during a session is in events.jsonl of that session, in the order of the
\* calls, in every state from the return on, a crash included; right after
\* such a return the BufWriter of the events holds nothing.
C8_EventDurability ==
    /\ \A dir \in DOMAIN acked : IsSubSeq(acked[dir], Lines(dir, "events"))
    /\ rec_ret # None /\ rec_ret[1].op = "record_event" /\ rec_ret[1].result = "Ok"
            /\ rec_ret[1].before.session # None
        => recorder.event_writer # None /\ recorder.event_writer[1].buf = <<>>

\* The process has crashed during a session with a sensor line still in
\* its BufWriter, lost with it, after two events were acknowledged.
C8_Witness ==
    /\ rec_ret # None
    /\ rec_ret[1].op = "crash"
    /\ rec_ret[1].before.session # None
    /\ rec_ret[1].before.sensor_writer # None
    /\ rec_ret[1].before.sensor_writer[1].buf # <<>>
    /\ Lines(rec_ret[1].before.session[1].id, "sensors") = <<>>
    /\ Len(Acked(rec_ret[1].before.session[1].id)) = 2

----------------------------------------------------------------------------
(* Properties of the application (SpecMain) *)

\* C9.  Shutdown ordering: once main has called end_session, every event
\* that was in flight at the signal has already passed the record step of
\* the event task.
C9_DrainedBeforeEndSession ==
    main_pc \in {"ended", "exited"} => in_flight = 0

-----------------------------------------------------------------------------
(* Properties of classify_event (SpecClassify) *)

\* The event type the specification gives a primary sensor's tag.
C11_TagType(tag) ==
    CASE tag = "emf" -> "EmfAnomaly"
      [] tag = "temperature" -> "TemperatureAnomaly"
      [] tag = "audio" -> "AudioAnomaly"
      [] tag = "camera" -> "VisualAnomaly"
      [] tag = "motion" -> "MotionDetected"
      [] tag = "infrasound" -> "InfrasoundDetected"
      [] tag = "sdr" -> "RfAnomaly"
      [] tag = "unknown" -> "EmfAnomaly"

\* C11: an event with at least two correlated anomalies is a
\* MultiSensorEvent whatever its primary sensor; with one or none its type
\* is the one of the primary sensor's tag.
C11_Classification ==
    (fn_result # None /\ fn_args.op = "classify_event") =>
        IF Len(fn_args.correlated) >= 2
        THEN fn_result = Some("MultiSensorEvent")
        ELSE fn_result = Some(C11_TagType(get_sensor_type(fn_args.primary.sensor_name)))

\* classify_event has typed an event of a camera with two correlated
\* readings, which is a MultiSensorEvent.
C11_Witness ==
    /\ fn_result = Some("MultiSensorEvent")
    /\ fn_args.op = "classify_event"
    /\ get_sensor_type(fn_args.primary.sensor_name) = "camera"
    /\ Len(fn_args.correlated) = 2

-----------------------------------------------------------------------------
(* Properties of the dispatch of triggers (SpecTriggers) *)

\* The names of a list of triggers.
NamesOf(ts) == [i \in 1..Len(ts) |-> ts[i].name]

\* What the actions of the triggers from index i on do on the event, the
\* action of a trigger run once if its name was returned and not at all
\* otherwise.
RECURSIVE C15_EffectsInOrder(_, _, _, _)
C15_EffectsInOrder(ts, i, fired, event) ==
    IF i > Len(ts) THEN <<>>
    ELSE (IF ts[i].name \in fired THEN Effects(ts[i].action, event) ELSE <<>>)
            \o C15_EffectsInOrder(ts, i + 1, fired, event)

\* C15.  For each event process_event evaluates the triggers in the order
\* they were added, runs the action of each at most once, and returns the
\* names of those that fired in that order.
C15_DispatchOrder ==
    tm_ret # None =>
        LET ts == tm_ret[1].before
            triggered == tm_ret[1].triggered
            fired == {triggered[k] : k \in 1..Len(triggered)}
        IN  /\ IsSubSeq(triggered, NamesOf(ts))
            /\ tm_ret[1].effects = C15_EffectsInOrder(ts, 1, fired, tm_ret[1].event)

\* One event has fired both triggers.
C15_Witness ==
    /\ tm_ret # None
    /\ tm_ret[1].triggered = <<"confident", "burst">>
    /\ Len(tm_ret[1].effects) = 3

-----------------------------------------------------------------------------
(* Properties of the pipeline (SpecPipeline) *)

C17_Expected ==
    [j \in 1..(2 * Len(trace.received)) |->
        [op |-> IF j % 2 = 1 THEN "record_event" ELSE "process_event",
         event |-> trace.received[(j + 1) \div 2]]]

\* C17.  The event task hands every event it receives to record_event and
\* then to process_event, and takes the next event only when both calls are
\* over.
C17_ConsumerOrder ==
    /\ Len(trace.calls) = 2 * Len(trace.received)
                            - (CASE e_pc = "recv" -> 0
                                 [] e_pc = "record" -> 2
                                 [] e_pc = "triggers" -> 1)
    /\ trace.calls = SubSeq(C17_Expected, 1, Len(trace.calls))

\* The event task holds its second event, different from the first,
\* recorded and not yet handed to the trigger manager.
C17_Witness ==
    /\ Len(trace.received) = 2
    /\ e_pc = "triggers"
    /\ Len(trace.calls) = 3
    /\ trace.calls[3] = [op |-> "record_event", event |-> trace.received[2]]
    /\ trace.received[1] # trace.received[2]

-----------------------------------------------------------------------------
(* Properties of SensorBaseline::update (SpecUpdate) *)

\* The sum of the rationals f[1] .. f[n].
RECURSIVE RSum(_, _)
RSum(f, n) == IF n = 0 THEN RInt(0) ELSE RAdd(RSum(f, n - 1), f[n])

\* The arithmetic mean of a sequence of values.
MeanOf(values) ==
    RDiv(RSum([i \in 1..Len(values) |-> RInt(values[i])], Len(values)), RInt(Len(values)))

\* The sample variance of a sequence of at least two values.
VarianceOf(values) ==
    LET d == [i \in 1..Len(values) |-> RSub(RInt(values[i]), MeanOf(values))]
    IN  RDiv(RSum([i \in 1..Len(values) |-> RMul(d[i], d[i])], Len(values)),
             RInt(Len(values) - 1))

\* C18.  After n >= 2 updates the mean of a baseline is the arithmetic mean
\* of the values it was fed and its std_dev squared is their sample
\* variance.
C18_Welford ==
    (fn_result # None /\ Len(fn_args) >= 2) =>
        /\ fn_result[1].mean = MeanOf(fn_args)
        /\ fn_result[1].std_dev_sq = VarianceOf(fn_args)

-----------------------------------------------------------------------------
(* Properties of end_session (SpecRecorder) *)

\* C19.  end_session on an active session sets end_time, not before
\* start_time, rewrites session.json with the session as it ends, flushes
\* and closes both writers, returns the session and leaves none active;
\* with no session active it returns None and changes nothing.
C19_EndSession ==
    (rec_ret # None /\ rec_ret[1].op = "end_session") =>
        LET before == rec_ret[1].before
            files == rec_ret[1].fs_before
        IN  IF before.session = None
            THEN /\ rec_ret[1].result = "Ok"
                 /\ rec_ret[1].session = None
                 /\ recorder = before
                 /\ fs = files
            ELSE LET started == before.session[1]
                     dir == started.id
                 IN  /\ rec_ret[1].result = "Ok"
                     /\ rec_ret[1].session # None
                     /\ rec_ret[1].session[1].end_time # None
                     /\ rec_ret[1].session[1].end_time[1] >= started.start_time
                     /\ rec_ret[1].session[1]
                            = [started EXCEPT !.end_time = rec_ret[1].session[1].end_time]
                     /\ fs[dir].session_json = Some(SessionJson(rec_ret[1].session[1]))
                     /\ before.event_writer # None =>
                            fs[before.event_writer[1].dir].events
                                = Some(files[before.event_writer[1].dir].events[1]
                                        \o before.event_writer[1].buf)
                     /\ before.sensor_writer # None =>
                            fs[before.sensor_writer[1].dir].sensors
                                = Some(files[before.sensor_writer[1].dir].sensors[1]
                                        \o before.sensor_writer[1].buf)
                     /\ recorder.event_writer = None
                     /\ recorder.sensor_writer = None
                     /\ recorder.session = None

-----------------------------------------------------------------------------
(* Properties of load_events (SpecLoad) *)

\* C20.  load_events of the id of a session returns exactly the events
\* recorded with success in that session, in the order of their recording.
C20_RoundTrip ==
    (/\ rec_ret # None
     /\ rec_ret[1].op = "load_events"
     /\ recorder.session # None
     /\ rec_ret[1].session_id = recorder.session[1].id) =>
        /\ rec_ret[1].result = "Ok"
        /\ rec_ret[1].events = [i \in 1..Len(recorded) |-> recorded[i][2]]

-----------------------------------------------------------------------------
(* Properties of the pipeline with a closed event channel (SpecClosed) *)

\* C21.  Once a send of process_reading has met a closed event channel, the
\* sensor task stops: it hands no further reading to process_reading.
C21_StopsOnClosedChannel ==
    [][(ret # None /\ ret[1].send = "closed") => trace'.taken = trace.taken]_vars

-----------------------------------------------------------------------------
(* Properties of the event task under recording errors (SpecPipeline) *)

\* The last element of a sequence that is not empty.
Last(q) == q[Len(q)]

\* C22.  When record_event has failed on an event, the event task still
\* hands that event to the trigger manager, and then takes the events that
\* follow.
C22_RecordErrorGoesOn ==
    (rec_ret # None /\ rec_ret[1].op = "record_event" /\ rec_ret[1].result = "Err") =>
        LET k == Len(trace.received)
        IN  \/ /\ e_pc = "triggers"
               /\ e_event = Some(trace.received[k])
               /\ Last(trace.calls) = [op |-> "record_event", event |-> trace.received[k]]
            \/ /\ e_pc = "recv"
               /\ Last(trace.calls) = [op |-> "process_event", event |-> trace.received[k]]
            \/ /\ e_pc = "record"
               /\ k >= 2
               /\ e_event = Some(trace.received[k])
               /\ Last(trace.calls)
                    = [op |-> "process_event", event |-> trace.received[k - 1]]

\* record_event failed on the first event; the trigger manager has had that
\* event all the same, and the event task has taken the second.
C22_Witness ==
    /\ rec_ret # None /\ rec_ret[1].op = "record_event" /\ rec_ret[1].result = "Err"
    /\ Len(trace.received) = 2
    /\ e_pc = "record"
    /\ trace.calls = <<[op |-> "record_event", event |-> trace.received[1]],
                       [op |-> "process_event", event |-> trace.received[1]]>>
    /\ event_history = <<trace.received[1]>>

-----------------------------------------------------------------------------
(* Properties of the order of process_reading's sections (Spec) *)

\* The call that returned last left the baseline of its sensor as it is now:
\* no call is under way and the sensor has had no reading since.
RetIsFresh ==
    /\ ret # None
    /\ pending = None
    /\ ret[1].sensor_name \in DOMAIN baselines
    /\ baselines[ret[1].sensor_name].sample_count = ret[1].sample_count

\* C23.  Warm-up ordering: the baseline is updated with the reading before
\* its validity is tested.  The reading that brings sample_count to exactly
\* min_baseline_samples is scored, against the baseline that includes it: the
\* call builds no event only if the reading is within the threshold of that
\* baseline or the confidence is below the minimum, and an event it builds
\* carries the mean and the z-score of that baseline.
C23_WarmUpOrdering ==
    /\ pending # None =>
          LET r == pending[1].reading
              b == baselines[r.sensor_name]
              snap == pending[1].event.sensor_data[1]
          IN  /\ b.sample_count = pending[1].sample_count
              /\ b.sample_count >= config.min_baseline_samples
              /\ AbsZAbove(b, r.value, config.anomaly_threshold)
              /\ snap.baseline = b.mean
              /\ snap.deviation = z_score(b, r.value)
    /\ (RetIsFresh /\ ret[1].sample_count = config.min_baseline_samples
            /\ ret[1].event = None) =>
          LET b == baselines[ret[1].sensor_name]
          IN  \/ ~AbsZAbove(b, ret[1].value, config.anomaly_threshold)
              \/ calculate_confidence(config, z_score(b, ret[1].value))
                    < config.min_confidence

\* The third reading of a sensor, with min_baseline_samples = 3, has built
\* an event: its snapshot holds the mean of the three readings, which is not
\* the mean of the first two.
C23_Witness ==
    /\ pending # None
    /\ pending[1].sample_count = config.min_baseline_samples
    /\ pending[1].reading.value = 10
    /\ pending[1].event.sensor_data[1].baseline = <<10, 3>>
    /\ baselines[pending[1].reading.sensor_name].mean = <<10, 3>>

-----------------------------------------------------------------------------
(* Properties of the recent-readings buffer (SpecWindow) *)

\* The reading of the process_reading call whose first part a step has run.
ReadingOfStep(p, r) ==
    IF p # None THEN p[1].reading
    ELSE [sensor_name |-> r[1].sensor_name, value |-> r[1].value]

\* C24.  Right after process_reading has stored its reading, every entry of
\* the recent-readings buffer has an age of at most 2 x
\* correlation_window_ms, the entries are in insertion order, and the reading
\* of the call is the last entry.
C24_WindowInvariant ==
    [][n_readings' = n_readings + 1 =>
          LET k == Len(recent_readings')
          IN  /\ \A i \in 1..k :
                    now' - recent_readings'[i].t <= 2 * config.correlation_window_ms
              /\ k >= 1
              /\ recent_readings'[k] = [t |-> now', reading |-> ReadingOfStep(pending', ret')]
              /\ IsSubSeq(SubSeq(recent_readings', 1, k - 1), recent_readings)]_vars

-----------------------------------------------------------------------------
(* Properties of the time base of process_reading (SpecStamped) *)

\* C25.  process_reading takes the timestamp of the reading as its `now`:
\* every entry of the recent-readings buffer is filed under the timestamp of
\* its reading, and the entries the prune has kept are newer than the
\* timestamp of the last reading less 2 x correlation_window_ms.
C25_ReadingTimeBase ==
    LET k == Len(recent_readings)
    IN  /\ \A i \in 1..k : recent_readings[i].t = recent_readings[i].reading.timestamp
        /\ \A i \in 1..k :
              recent_readings[i].reading.timestamp
                  > recent_readings[k].reading.timestamp - 2 * config.correlation_window_ms

-----------------------------------------------------------------------------
(* Properties of the correlated anomalies of an event (Spec) *)

\* The places of the recent-readings buffer whose reading is a correlated
\* anomaly for a primary reading of the given sensor at the given time.
QualifyingEntries(sensor_name, time) ==
    {i \in 1..Len(recent_readings) :
        LET entry == recent_readings[i]
        IN  /\ entry.reading.sensor_name # sensor_name
            /\ entry.t <= time
            /\ time - entry.t < config.correlation_window_ms
            /\ entry.reading.sensor_name \in DOMAIN baselines
            /\ AbsZAbove(baselines[entry.reading.sensor_name], entry.reading.value,
                         SoftThreshold(config))}

\* C26.  Correlated anomalies are counted per reading: the event a call is
\* about to send counts every qualifying entry of the buffer, two of the
\* same sensor as two; each adds 0.1 to the confidence (capped at 0.99), two
\* or more make the event a MultiSensorEvent, and no reading of the primary
\* sensor is among them.
C26_CountedPerReading ==
    pending # None =>
        LET event == pending[1].event
            primary == pending[1].reading
            k == Cardinality(QualifyingEntries(primary.sensor_name, event.timestamp))
            base == calculate_confidence(config,
                        z_score(baselines[primary.sensor_name], primary.value))
        IN  /\ event.metadata.correlated_sensors = k
            /\ Len(event.sensor_data) = 1 + k
            /\ event.confidence = Min2(base + 100 * k, 990)
            /\ (event.event_type = "MultiSensorEvent") <=> (k >= 2)
            /\ \A i \in 2..Len(event.sensor_data) :
                    event.sensor_data[i].sensor_name # primary.sensor_name

\* An event is about to be sent whose two correlated anomalies are readings
\* of one sensor: it counts 2, has 0.2 added to its confidence and is a
\* MultiSensorEvent.
C26_Witness ==
    /\ pending # None
    /\ pending[1].event.metadata.correlated_sensors = 2
    /\ Len(pending[1].event.sensor_data) = 3
    /\ pending[1].event.sensor_data[2].sensor_name = pending[1].event.sensor_data[3].sensor_name
    /\ pending[1].event.event_type = "MultiSensorEvent"
    /\ pending[1].event.confidence
          = 200 + calculate_confidence(config, pending[1].event.sensor_data[1].deviation)

-----------------------------------------------------------------------------
(* Properties of the shape of an event (Spec) *)

\* The place in the recent-readings buffer of the j-th of the entries q.
NthOf(q, j) == CHOOSE i \in q : Cardinality({h \in q : h <= i}) = j

\* C27.  The event a call is about to send holds 1 + k snapshots, k the
\* number of correlated anomalies: the first is the primary reading, with
\* the mean of its baseline and its z-score; the k that follow are the
\* correlated readings in the order of the buffer, each with the mean of the
\* baseline of its own sensor and its z-score against it; the metadata
\* entry correlated_sensors is k.
C27_EventShape ==
    pending # None =>
        LET event == pending[1].event
            primary == pending[1].reading
            q == QualifyingEntries(primary.sensor_name, event.timestamp)
            k == Cardinality(q)
        IN  /\ Len(event.sensor_data) = 1 + k
            /\ event.sensor_data[1]
                  = [sensor_name |-> primary.sensor_name,
                     sensor_type |-> get_sensor_type(primary.sensor_name),
                     value |-> primary.value,
                     baseline |-> baselines[primary.sensor_name].mean,
                     deviation |-> z_score(baselines[primary.sensor_name], primary.value)]
            /\ \A j \in 1..k :
                  LET reading == recent_readings[NthOf(q, j)].reading
                  IN  event.sensor_data[1 + j]
                        = [sensor_name |-> reading.sensor_name,
                           sensor_type |-> get_sensor_type(reading.sensor_name),
                           value |-> reading.value,
                           baseline |-> baselines[reading.sensor_name].mean,
                           deviation |-> z_score(baselines[reading.sensor_name],
                                                 reading.value)]
            /\ event.metadata.correlated_sensors = k

\* An event is about to be sent with two correlated snapshots, of different
\* values and opposite deviations.
C27_Witness ==
    /\ pending # None
    /\ Len(pending[1].event.sensor_data) = 3
    /\ pending[1].event.sensor_data[2].value # pending[1].event.sensor_data[3].value
    /\ pending[1].event.sensor_data[2].deviation = -pending[1].event.sensor_data[3].deviation
    /\ pending[1].event.sensor_data[1].baseline = <<10, 3>>

-----------------------------------------------------------------------------
(* Properties of the deviations an event records (Spec) *)

\* C28.  In every emitted event the deviation of the primary snapshot is
\* beyond anomaly_threshold in absolute value; the deviation of every
\* correlated snapshot is beyond 0.8 x anomaly_threshold in absolute value,
\* and its sensor is not the primary one.  Deviations are in thousandths.
C28_DeviationsBeyondThresholds ==
    \A e \in EmittedEvents :
        /\ Abs(e.sensor_data[1].deviation) > Milli(config.anomaly_threshold)
        /\ \A i \in 2..Len(e.sensor_data) :
              /\ Abs(e.sensor_data[i].deviation) > Milli(SoftThreshold(config))
              /\ e.sensor_data[i].sensor_name # e.sensor_data[1].sensor_name

\* A call has returned an event with a correlated snapshot of another
\* sensor whose reading lies below the mean of its baseline.
C28_Witness ==
    /\ ret # None
    /\ ret[1].event # None
    /\ Len(ret[1].event[1].sensor_data) >= 2
    /\ ret[1].event[1].sensor_data[2].deviation < 0
    /\ ret[1].event[1].sensor_data[1].deviation > 0

-----------------------------------------------------------------------------
(* Properties of the history the conditions see (SpecTriggers) *)

\* How many times x is found in the sequence q.
Occurrences(q, x) == Cardinality({j \in 1..Len(q) : q[j] = x})

\* C29.  In process_event(e) the condition of every trigger is evaluated
\* against the history as it was before the call, the events processed
\* earlier and not e: a trigger fires iff it is enabled, out of its cooldown
\* and its condition holds of e and that history.  After the call the
\* history is that history with e appended once, whether a trigger fired or
\* none did.
C29_HistoryWithoutCurrent ==
    tm_ret # None =>
        /\ \A i \in 1..Len(tm_ret[1].before) :
              LET trigger == tm_ret[1].before[i]
              IN  Fired(trigger.name) <=>
                      /\ trigger.enabled
                      /\ ~InCooldown(trigger, tm_ret[1].event)
                      /\ check(trigger.condition, tm_ret[1].event, tm_ret[1].history)
        /\ Len(tm_ret[1].history) < history_limit
              => Occurrences(event_history, tm_ret[1].event)
                    = Occurrences(tm_ret[1].history, tm_ret[1].event) + 1
        /\ Len(tm_ret[1].history) < history_limit
              => event_history = Append(tm_ret[1].history, tm_ret[1].event)

\* process_event has handled a second event on which no trigger fired, both
\* triggers enabled: the burst condition of 3 counted the one event of the
\* history and the event itself, and the event is in the history now.
C29_Witness ==
    /\ tm_ret # None
    /\ tm_ret[1].triggered = <<>>
    /\ \A i \in 1..Len(tm_ret[1].before) : tm_ret[1].before[i].enabled
    /\ Len(tm_ret[1].history) = 1
    /\ event_history = Append(tm_ret[1].history, tm_ret[1].event)

-----------------------------------------------------------------------------
(* Properties of the reset of baselines (SpecResets) *)

\* Whether a rational is 0.
IsZero(x) == ~RLess(x, RInt(0)) /\ ~RLess(RInt(0), x)

\* C30.  A reset leaves every baseline it resets with sample_count = 0,
\* mean = 0 and std_dev = 0 (std_dev is held as its square).
C30_ResetZeroes ==
    [][n_resets' = n_resets + 1 =>
          \A s \in DOMAIN baselines' :
              baselines'[s] # baselines[s] =>
                  /\ baselines'[s].sample_count = 0
                  /\ IsZero(baselines'[s].mean)
                  /\ IsZero(baselines'[s].std_dev_sq)]_vars

-----------------------------------------------------------------------------
(* Properties of process_reading under concurrent callers (SpecInterleaved) *)

\* C31.  Lock discipline: a process_reading call suspended in the send of
\* its event holds no guard, neither on the baselines nor on the
\* recent-readings buffer, so that reset_baseline and another process_reading
\* can take these locks while the send is blocked.
C31_NoGuardAcrossSend ==
    pending # None =>
        /\ pending[1].guards = {}
        /\ CanLock(SuspendedGuards, "baselines", "write")
        /\ CanLock(SuspendedGuards, "recent_readings", "write")

\* While a send is blocked on the full channel, reset_baseline has reset the
\* baseline the suspended call scored its reading against, and another
\* process_reading call has stored its reading.
C31_Witness ==
    /\ pending # None
    /\ rx_open
    /\ Len(channel) = ChannelCapacity
    /\ pending[1].sample_count >= config.min_baseline_samples
    /\ baselines[pending[1].reading.sensor_name].sample_count = 0
    /\ call # None
    /\ call[1].at = StorePoint


\* C32.  Whatever runs between the sections of process_reading, the event a
\* call sends was scored against a baseline of its sensor that has
\* sample_count >= min_baseline_samples, and that is the baseline the
\* validity test of the call passed.
C32_ScoredAgainstValidated ==
    pending # None =>
        /\ pending[1].scored.sample_count >= config.min_baseline_samples
        /\ pending[1].scored = pending[1].validated

-----------------------------------------------------------------------------
(* Properties of the sensors that take part in a correlation (Spec) *)

\* C33.  Only sensors with a valid baseline contribute to a correlation:
\* every correlated snapshot of the event a call is about to send is of a
\* sensor whose baseline has sample_count >= min_baseline_samples.
C33_CorrelatedBaselinesValid ==
    pending # None =>
        \A i \in 2..Len(pending[1].event.sensor_data) :
            baselines[pending[1].event.sensor_data[i].sensor_name].sample_count
                >= config.min_baseline_samples

-----------------------------------------------------------------------------
(* Properties of the handles of the recorder (SpecRecorder) *)

\* C34.  Recorder handle invariant: in every state of the recorder, also
\* after a start_session or an end_session that failed, a session is active
\* iff the event writer and the sensor writer are both open.
C34_SessionIffWriters ==
    (recorder.session # None)
        <=> (recorder.event_writer # None /\ recorder.sensor_writer # None)


\* C35.  Session isolation: a session started when none is active gets a
\* directory of its own, so that its events.jsonl holds no event of an
\* earlier session: right after such a start_session has returned Ok, the
\* events.jsonl of the new session is empty.
C35_SessionIsolation ==
    (/\ rec_ret # None
     /\ rec_ret[1].op = "start_session"
     /\ rec_ret[1].result = "Ok"
     /\ rec_ret[1].before = EventRecorder_new
     /\ recorder.session # None)
        => fs[recorder.session[1].id].events = Some(<<>>)


\* C36.  record_event called with no session active (before a
\* start_session or after an end_session) returns Ok, writes nothing to any
\* file and leaves the recorder as it was.
C36_RecordWithoutSession ==
    (/\ rec_ret # None
     /\ rec_ret[1].op = "record_event"
     /\ rec_ret[1].before.session = None)
        => /\ rec_ret[1].result = "Ok"
           /\ fs = rec_ret[1].fs_before
           /\ recorder = rec_ret[1].before


\* Whether the lines a writer held in its buffer before a call are at the
\* end of its file after it.
WrittenOut(writer, file) ==
    writer # None =>
        LET lines == fs[writer[1].dir][file][1]
            n == Len(writer[1].buf)
        IN  /\ Len(lines) >= n
            /\ SubSeq(lines, Len(lines) - n + 1, Len(lines)) = writer[1].buf

\* C37.  When end_session returns Ok(Some(session)), every line record_event
\* and record_sensor accepted during the session is in its file: the event
\* lines record_event returned Ok for are in events.jsonl, and the sensor
\* lines the writer still held when end_session was called (record_sensor
\* returned Ok for each) have been written out; a flush that failed is not
\* reported as success.
C37_EndSessionWritesOut ==
    (/\ rec_ret # None
     /\ rec_ret[1].op = "end_session"
     /\ rec_ret[1].result = "Ok"
     /\ rec_ret[1].session # None)
        => /\ IsSubSeq(recorded, Lines(rec_ret[1].session[1].id, "events"))
           /\ WrittenOut(rec_ret[1].before.sensor_writer, "sensors")


\* C38.  A start_session that fails, at whichever step, leaves session,
\* event_writer and sensor_writer as they were before the call.
C38_FailedStartKeepsState ==
    (rec_ret # None /\ rec_ret[1].op = "start_session" /\ rec_ret[1].result = "Err")
        => recorder = rec_ret[1].before

\* start_session has failed at its last step, the write of session.json,
\* while a session was active whose sensor writer held a line: the session
\* and both writers are the ones of before.
C38_Witness ==
    /\ rec_ret # None
    /\ rec_ret[1].op = "start_session"
    /\ rec_ret[1].result = "Err"
    /\ recorder.session # None
    /\ recorder.sensor_writer # None
    /\ recorder.sensor_writer[1].buf # <<>>
    /\ recorder.session[1].id \in DOMAIN fs
    /\ fs[recorder.session[1].id].session_json = Some(SessionJson(recorder.session[1]))
    /\ \E d \in DOMAIN fs :
          /\ d # recorder.session[1].id
          /\ fs[d].events # None
          /\ fs[d].sensors # None
          /\ fs[d].session_json = None


\* The three ways a trigger does not fire on an event: it is disabled, the
\* event falls in its cooldown, or its condition is false.
NotFiring(trigger, event, history) ==
    \/ ~trigger.enabled
    \/ InCooldown(trigger, event)
    \/ ~check(trigger.condition, event, history)

\* C39.  In a call of process_event, a trigger that is disabled, in cooldown
\* or whose condition is false is not among the fired ones, none of the side
\* effects of its action takes place, and its last_triggered, enabled and
\* cooldown are those of before; and a trigger whose last_triggered changed
\* in the call is among the fired ones.
C39_NonFiringFrame ==
    [][n_events' = n_events + 1 =>
        \A i \in 1..Len(triggers) :
            LET trigger == triggers[i]
                after == triggers'[i]
                event == tm_ret'[1].event
                fired == \E k \in 1..Len(tm_ret'[1].triggered) :
                            tm_ret'[1].triggered[k] = trigger.name
                own == Effects(trigger.action, event)
            IN  /\ NotFiring(trigger, event, event_history) =>
                    /\ ~fired
                    /\ \A k \in 1..Len(tm_ret'[1].effects), m \in 1..Len(own) :
                            tm_ret'[1].effects[k] # own[m]
                    /\ after.last_triggered = trigger.last_triggered
                    /\ after.enabled = trigger.enabled
                    /\ after.cooldown = trigger.cooldown
                /\ after.last_triggered # trigger.last_triggered => fired]_vars

\* process_event has handled an event of confidence 800 while the trigger
\* "confident", enabled and with its condition true, was in its cooldown and
\* the trigger "burst" was disabled: neither fired, and both are as they were.
C39_Witness ==
    /\ tm_ret # None
    /\ tm_ret[1].result = "Ok"
    /\ tm_ret[1].triggered = <<>>
    /\ tm_ret[1].effects = <<>>
    /\ triggers = tm_ret[1].before
    /\ \E i, j \in 1..Len(triggers) :
        /\ tm_ret[1].before[i].enabled
        /\ InCooldown(tm_ret[1].before[i], tm_ret[1].event)
        /\ check(tm_ret[1].before[i].condition, tm_ret[1].event, tm_ret[1].history)
        /\ ~tm_ret[1].before[j].enabled
        /\ check(tm_ret[1].before[j].condition, tm_ret[1].event, tm_ret[1].history)


-----------------------------------------------------------------------------
(* Frame of process_reading and reset_baseline (SpecFrame) *)

\* The baselines of every sensor but sensor_name are the same in bl and bl2.
OthersUnchanged(bl, bl2, sensor_name) ==
    /\ DOMAIN bl2 \ {sensor_name} = DOMAIN bl \ {sensor_name}
    /\ \A o \in DOMAIN bl \ {sensor_name} : bl2[o] = bl[o]

\* C40.  process_reading on a reading of sensor s leaves s with a baseline
\* whose sample_count is one more than before (0 before when s had none),
\* whether it builds an event or not, and leaves every other baseline alone;
\* reset_baseline(s) leaves every other baseline and the recent-readings
\* buffer alone, and leaves the whole map alone when s has no baseline.
C40_Frame ==
    [][/\ n_readings' = n_readings + 1 =>
            LET s == ReadingOfStep(pending', ret').sensor_name
            IN  /\ s \in DOMAIN baselines'
                /\ baselines'[s].sample_count = SampleCount(baselines, s) + 1
                /\ OthersUnchanged(baselines, baselines', s)
       /\ n_resets' = n_resets + 1 =>
            LET s == fn_args'.sensor_name
            IN  /\ OthersUnchanged(baselines, baselines', s)
                /\ recent_readings' = recent_readings
                /\ s \notin DOMAIN baselines => baselines' = baselines]_vars

\* process_reading on a reading of one sensor has built an event, that
\* sensor's baseline holds the count the call returned, and reset_baseline
\* has then been called for a sensor that has no baseline: the map holds
\* the first sensor only and the buffer still holds its readings.
C40_Witness ==
    /\ ret # None
    /\ ret[1].event # None
    /\ fn_args # None
    /\ fn_args.op = "reset_baseline"
    /\ fn_args.sensor_name \notin DOMAIN baselines
    /\ DOMAIN baselines = {ret[1].sensor_name}
    /\ baselines[ret[1].sensor_name].sample_count = ret[1].sample_count
    /\ recent_readings # <<>>

====
